---- MODULE Spec2Model ----
(***************************************************************************)
(* Model of the access-control engine of MongoBot (src/rbac.py,            *)
(* RBACManager) as a state machine.  Strings that the code inspects        *)
(* (startswith, len, lstrip, lower, "in") are sequences of one-character   *)
(* strings; operation names, which the code only compares and looks up in  *)
(* sets, are plain strings.  Coroutines are tasks that run from one await  *)
(* of a Slack call to the next without interruption (asyncio event loop).  *)
(***************************************************************************)
EXTENDS Integers, Sequences, FiniteSets, TLC

VARIABLES
    rbac_enabled, admin_users, admin_groups, admin_operations,
    user_operations, self_service_operations, notify_admin_on_denied,
    log_access_attempts,
    group_membership_cache, username_to_id_cache,
    now,            \* datetime.now().timestamp()
    slack,          \* what the Slack workspace behind slack_client holds
    task,           \* the coroutines calling into the manager
    resolutions,    \* per username, the last resolve_admin_entry_to_user_id
    memberships,    \* per (user, group) key, the last is_user_in_group that
                    \* wrote the cache
    applied,        \* the dict of the last update_configuration
    all_calls_raised, \* no Slack call has returned a response so far
    budget,         \* calls and events still to come
    bot             \* the attributes of the MongoSlackBot that owns the manager

policy == <<rbac_enabled, admin_users, admin_groups, admin_operations,
            user_operations, self_service_operations, notify_admin_on_denied,
            log_access_attempts>>
caches == <<group_membership_cache, username_to_id_cache>>
history == <<resolutions, memberships>>
vars == <<policy, caches, now, slack, task, history, applied,
          all_calls_raised, budget, bot>>

----------------------------------------------------------------------------
(* Bounds of the model *)
MaxCalls == 2       \* calls of check_user_permission in one behaviour
MaxEvents == 1      \* configuration updates, cache clears and clock advances

(* Program constants *)
cache_ttl == 300
UserIdLen == 11

(* the clock advances by less than the TTL, or by the TTL *)
TickSteps == {cache_ttl \div 2, cache_ttl}
Tasks == {"t1", "t2"}

----------------------------------------------------------------------------
(* Strings *)
None == <<"None">>

Str(n, c) == [i \in 1..n |-> c]
(* Slack user ids: "U" followed by ten characters *)
U1 == <<"U">> \o Str(9, "0") \o <<"1">>
U2 == <<"U">> \o Str(9, "0") \o <<"2">>
U3 == <<"U">> \o Str(9, "0") \o <<"3">>
Users == {U1, U2}

LowerChar(c) == IF c = "A" THEN "a" ELSE IF c = "B" THEN "b" ELSE c
lower(s) == [i \in DOMAIN s |-> LowerChar(s[i])]

RECURSIVE lstrip(_, _)
lstrip(s, c) == IF s # <<>> /\ Head(s) = c THEN lstrip(Tail(s), c) ELSE s

contains(s, c) == \E i \in DOMAIN s : s[i] = c

(* IsUserIdFormat that takes ten characters for the length of an ID *)
IsUserIdFormat_TenLong(s) == s # <<>> /\ Head(s) = "U" /\ Len(s) = UserIdLen - 1

(* rbac.py:181  admin_entry.startswith("U") and len(admin_entry) == 11 *)
IsUserIdFormat(s) == s # <<>> /\ Head(s) = "U" /\ Len(s) = UserIdLen

----------------------------------------------------------------------------
(* The Slack workspace: users.list members, usergroups and their users.  A  *)
(* field a member does not have is None (dict.get without default).        *)
alice == [id |-> U2, deleted |-> FALSE, name |-> <<"a">>,
          real_name |-> <<"A", "l">>, display_name |-> None,
          profile_display_name |-> <<"a", "l">>, profile_real_name |-> <<"A", "l">>,
          email |-> <<"a", "@", "x">>]
bob == [id |-> U1, deleted |-> FALSE, name |-> <<"b">>,
        real_name |-> <<"A">>, display_name |-> None,
        profile_display_name |-> None, profile_real_name |-> <<"A">>,
        email |-> <<"b", "@", "x">>]
zed == [id |-> U3, deleted |-> TRUE, name |-> <<"z">>,
        real_name |-> None, display_name |-> None,
        profile_display_name |-> None, profile_real_name |-> None,
        email |-> None]

dba == <<"d">>      \* a usergroup handle the workspace has
ops == <<"o">>      \* a usergroup handle the workspace does not have

WorkspaceA == [members |-> <<zed, alice, bob>>,
               usergroups |-> <<[id |-> "S1", handle |-> dba]>>,
               users |-> [g \in {"S1"} |-> {U2}]]
WorkspaceB == [members |-> <<zed, bob, alice>>,
               usergroups |-> <<[id |-> "S1", handle |-> dba]>>,
               users |-> [g \in {"S1"} |-> {U1}]]
Workspaces == {WorkspaceA, WorkspaceB}

(* user.get("real_name", "") : the default is the empty string *)
OrEmpty(v) == IF v = None THEN <<>> ELSE v

(* rbac.py:216-223  the five comparisons made for one member *)
MemberMatches(user, username) ==
    \/ user.name = username
    \/ lower(OrEmpty(user.real_name)) = lower(username)
    \/ user.display_name = username
    \/ user.profile_display_name = username
    \/ lower(OrEmpty(user.profile_real_name)) = lower(username)

(* rbac.py:213-224  first member of the listing, not deleted, that matches *)
RECURSIVE ScanMembers(_, _)
ScanMembers(members, username) ==
    IF members = <<>> THEN None
    ELSE IF ~Head(members).deleted /\ MemberMatches(Head(members), username)
         THEN Head(members).id
         ELSE ScanMembers(Tail(members), username)

(* users.lookupByEmail on the workspace: the member with that email *)
EmailOwners(email) ==
    {slack.members[i].id : i \in {j \in DOMAIN slack.members :
        ~slack.members[j].deleted /\ slack.members[j].email = email}}

(* rbac.py:255-256  rest of the usergroups from the first with that handle *)
RECURSIVE FromHandle(_, _)
FromHandle(usergroups, group_name) ==
    IF usergroups = <<>> THEN <<>>
    ELSE IF Head(usergroups).handle = group_name THEN usergroups
         ELSE FromHandle(Tail(usergroups), group_name)

----------------------------------------------------------------------------
(* Cache entries and keys *)
UsernameKey(username) == <<"username:">> \o username        \* rbac.py:188
(* GroupKey without the user: one entry per group *)
GroupKey_GroupOnly(user_id, group_name) == <<":">> \o group_name
GroupKey(user_id, group_name) == user_id \o <<":">> \o group_name  \* rbac.py:242

(* CacheValid that still takes an entry whose age is the TTL *)
CacheValid_Inclusive(cache, key) ==
    /\ key \in DOMAIN cache
    /\ now - cache[key].timestamp <= cache_ttl

(* CacheValid that takes an entry whatever its age *)
CacheValid_NoExpiry(cache, key) == key \in DOMAIN cache

(* rbac.py:189-191 and 245-247: the entry exists and is younger than the TTL *)
CacheValid(cache, key) ==
    /\ key \in DOMAIN cache
    /\ now - cache[key].timestamp < cache_ttl

CachePut(cache, key, entry) ==
    [k \in DOMAIN cache \cup {key} |-> IF k = key THEN entry ELSE cache[k]]

EmptyCache == [k \in {} |-> <<>>]

----------------------------------------------------------------------------
(* Configurations that load_configuration can find (rbac.py:41-113) *)
at_alice == <<"@", "a">>
bare_alice == <<"a">>
mail_alice == <<"a", "@", "x">>
nobody == <<"n">>

Operations == {"create_cluster", "list_clusters", "add_ip_whitelist", "drop_universe"}

Config(enabled, users, groups, adminOps, userOps, selfOps, notify, log) ==
    [RBAC_ENABLED |-> enabled, ADMIN_USERS |-> users, ADMIN_GROUPS |-> groups,
     ADMIN_OPERATIONS |-> adminOps, USER_OPERATIONS |-> userOps,
     SELF_SERVICE_OPERATIONS |-> selfOps,
     RBAC_NOTIFY_ADMIN_ON_DENIED |-> notify, RBAC_LOG_ACCESS_ATTEMPTS |-> log]

(* operation sets: disjoint as in config.example.py, and overlapping *)
DisjointOps == [admin |-> {"create_cluster"}, user |-> {"list_clusters"},
                self |-> {"add_ip_whitelist"}]
OverlapOps == [admin |-> {"create_cluster", "list_clusters", "add_ip_whitelist"},
               user |-> {"list_clusters", "drop_universe"},
               self |-> {"add_ip_whitelist", "drop_universe"}]


ConfigFiles == {
    Config(TRUE, {U1, at_alice}, {dba}, DisjointOps.admin, DisjointOps.user,
           DisjointOps.self, TRUE, TRUE),
    Config(TRUE, {nobody, mail_alice}, {ops}, OverlapOps.admin,
           OverlapOps.user, OverlapOps.self, FALSE, TRUE),
    Config(TRUE, {}, {}, OverlapOps.admin, OverlapOps.user, OverlapOps.self,
           TRUE, FALSE),
    Config(FALSE, {U1}, {dba}, DisjointOps.admin, DisjointOps.user,
           DisjointOps.self, TRUE, TRUE) }

(* rbac.py:105-113  the configuration set when loading raises *)
SecureDefault ==
    Config(TRUE, {}, {}, {"create_cluster", "create_user"}, {"list_clusters", "help"},
           {"reset_password", "add_ip_whitelist"}, TRUE, TRUE)

----------------------------------------------------------------------------
(* Tasks *)
(* no update_configuration so far: a dict without keys *)
NoUpdate == [key \in {} |-> {}]

NoResult == [allowed |-> FALSE, reason |-> "none"]
Decision(allowed, reason) == [allowed |-> allowed, reason |-> reason]

IdleTask ==
    [pc |-> "idle", user_id |-> None, operation |-> "", target_user |-> None,
     entries |-> {}, groups |-> {}, admin_entry |-> None, username |-> None,
     group_name |-> None, usergroups |-> <<>>, recipients |-> {},
     is_admin |-> "unset", result |-> NoResult,
     \* what the call has done so far
     calls |-> 0, res_start |-> 0, res_calls |-> 0, logged |-> 0, notified |-> 0,
     attempted |-> {}, updated |-> FALSE, resolved |-> {}, member |-> {},
     grp_start |-> 0, grp_calls |-> 0, grp_cached |-> FALSE,
     \* the group cache was cleared while is_user_in_group awaited Slack
     grp_raced |-> FALSE,
     \* the entries in the group cache, when the call was made, that were
     \* written by such a query
     raced0 |-> {},
     queried |-> {}, hits |-> {},
     \* the policy when the call was made
     policy0 |-> NoUpdate,
     \* the method called, when it is not check_user_permission, and what
     \* it returned
     api |-> "", category |-> "", permissions |-> NoUpdate, admin_info |-> <<>>,
     failed |-> FALSE,
     \* the message the bot is processing: where process_message is, the
     \* text, what categorize_command made of it, whether execute_command
     \* was called, the answer said, the MCP session a setup opened
     stage |-> "", command |-> <<>>, command_info |-> NoUpdate,
     executed |-> FALSE, reply |-> "", setup |-> FALSE, session |-> 0]

(* what a call of the Slack client can do: return a response with ok true  *)
(* or false, raise SlackApiError, or raise another error (transport)       *)
Outcomes == {"ok", "not_ok", "SlackApiError", "Exception"}

(* mongo_bot.py:28-52  MongoSlackBot.__init__: no user id of the bot, no    *)
(* MCP session (0) and no command handler (0) yet; the manager is there    *)
(* when RBACManager(client) has been called                                *)
NewBot == [bot_user_id |-> FALSE, rbac_manager |-> TRUE, mcp_session |-> 0,
           command_handler |-> 0, opened |-> 0]

(* rbac.py:41-113 *)
load_configuration(c) ==
    /\ rbac_enabled = c.RBAC_ENABLED
    /\ admin_users = c.ADMIN_USERS
    /\ admin_groups = c.ADMIN_GROUPS
    /\ admin_operations = c.ADMIN_OPERATIONS
    /\ user_operations = c.USER_OPERATIONS
    /\ self_service_operations = c.SELF_SERVICE_OPERATIONS
    /\ notify_admin_on_denied = c.RBAC_NOTIFY_ADMIN_ON_DENIED
    /\ log_access_attempts = c.RBAC_LOG_ACCESS_ATTEMPTS

(* rbac.py:21-39  RBACManager.__init__ *)
Init ==
    /\ \E c \in ConfigFiles \cup {SecureDefault} : load_configuration(c)
    /\ group_membership_cache = EmptyCache
    /\ username_to_id_cache = EmptyCache
    /\ now = 0
    /\ slack \in Workspaces
    /\ task = [p \in Tasks |-> IdleTask]
    /\ resolutions = EmptyCache
    /\ memberships = EmptyCache
    /\ applied = NoUpdate
    /\ all_calls_raised = TRUE
    /\ budget = [calls |-> MaxCalls, events |-> MaxEvents]
    /\ bot = NewBot

----------------------------------------------------------------------------
(* check_user_permission, rbac.py:115-158 *)
Finish(t, decision) == [t EXCEPT !.pc = "done", !.result = decision]
Raise(t) == [t EXCEPT !.pc = "raised"]

(* Decide with the user-operation step before the admin step *)
Decide_UserFirst(t, is_admin) ==
    LET t1 == [t EXCEPT !.is_admin = IF is_admin THEN "yes" ELSE "no"] IN
    IF t.operation \in user_operations
    THEN Finish(t1, Decision(TRUE, "User operation"))
    ELSE IF is_admin THEN Finish(t1, Decision(TRUE, "Admin user"))
    ELSE IF t.operation \in admin_operations
         THEN IF notify_admin_on_denied
              THEN [t1 EXCEPT !.pc = "users_info", !.notified = @ + 1,
                              !.calls = @ + 1]
              ELSE Finish(t1, Decision(FALSE, "Admin privileges required"))
    ELSE Finish(t1, Decision(FALSE, "Unknown operation"))

(* Decide that notifies whatever notify_admin_on_denied is *)
Decide_AlwaysNotify(t, is_admin) ==
    LET t1 == [t EXCEPT !.is_admin = IF is_admin THEN "yes" ELSE "no"] IN
    IF is_admin THEN Finish(t1, Decision(TRUE, "Admin user"))
    ELSE IF t.operation \in user_operations
         THEN Finish(t1, Decision(TRUE, "User operation"))
    ELSE IF t.operation \in admin_operations
         THEN [t1 EXCEPT !.pc = "users_info", !.notified = @ + 1, !.calls = @ + 1]
    ELSE Finish(t1, Decision(FALSE, "Unknown operation"))

(* Decide that allows what it does not know *)
Decide_DefaultAllow(t, is_admin) ==
    LET t1 == [t EXCEPT !.is_admin = IF is_admin THEN "yes" ELSE "no"] IN
    IF is_admin THEN Finish(t1, Decision(TRUE, "Admin user"))
    ELSE IF t.operation \in user_operations
         THEN Finish(t1, Decision(TRUE, "User operation"))
    ELSE IF t.operation \in admin_operations
         THEN IF notify_admin_on_denied
              THEN [t1 EXCEPT !.pc = "users_info", !.notified = @ + 1,
                              !.calls = @ + 1]
              ELSE Finish(t1, Decision(FALSE, "Admin privileges required"))
    ELSE Finish(t1, Decision(TRUE, "Unknown operation"))

(* Decide with the admin-requirement step before the user-operation step *)
Decide_AdminOpsFirst(t, is_admin) ==
    LET t1 == [t EXCEPT !.is_admin = IF is_admin THEN "yes" ELSE "no"] IN
    IF is_admin THEN Finish(t1, Decision(TRUE, "Admin user"))
    ELSE IF t.operation \in admin_operations
         THEN IF notify_admin_on_denied
              THEN [t1 EXCEPT !.pc = "users_info", !.notified = @ + 1,
                              !.calls = @ + 1]
              ELSE Finish(t1, Decision(FALSE, "Admin privileges required"))
    ELSE IF t.operation \in user_operations
         THEN Finish(t1, Decision(TRUE, "User operation"))
    ELSE Finish(t1, Decision(FALSE, "Unknown operation"))

(* rbac.py:143-158  the steps after is_user_admin has returned *)
Decide(t, is_admin) ==
    LET t1 == [t EXCEPT !.is_admin = IF is_admin THEN "yes" ELSE "no"] IN
    IF t.api = "is_user_admin"
    THEN \* is_user_admin was called by the bot, not by check_user_permission
         [t1 EXCEPT !.pc = "done"]
    ELSE IF is_admin THEN Finish(t1, Decision(TRUE, "Admin user"))
    ELSE IF t.operation \in user_operations
         THEN Finish(t1, Decision(TRUE, "User operation"))
    ELSE IF t.operation \in admin_operations
         THEN IF notify_admin_on_denied
              THEN \* notify_admin_of_denied_access awaits users_info first
                   [t1 EXCEPT !.pc = "users_info", !.notified = @ + 1,
                              !.calls = @ + 1]
              ELSE Finish(t1, Decision(FALSE, "Admin privileges required"))
    ELSE Finish(t1, Decision(FALSE, "Unknown operation"))

(* is_user_admin without the test of the requester against admin_users *)
IsUserAdminStart_NoLiteral(t) ==
    [t EXCEPT !.pc = "admin_loop", !.entries = admin_users]

(* rbac.py:160-167  is_user_admin up to the loop over admin_users *)
IsUserAdminStart(t) ==
    IF t.user_id \in admin_users THEN Decide(t, TRUE)
    ELSE [t EXCEPT !.pc = "admin_loop", !.entries = admin_users]

(* CheckStart that does not look at rbac_enabled *)
CheckStart_NoSwitch(t) ==
    LET t1 == [t EXCEPT !.logged = IF log_access_attempts THEN @ + 1 ELSE @] IN
    IF t.operation \in self_service_operations /\ t.target_user = t.user_id
    THEN Finish(t1, Decision(TRUE, "Self-service operation"))
    ELSE IsUserAdminStart(t1)

(* CheckStart with the self-service step only for operations that are not  *)
(* admin operations                                                        *)
CheckStart_AdminOpsNotSelfService(t) ==
    IF ~rbac_enabled THEN Finish(t, Decision(TRUE, "RBAC disabled"))
    ELSE LET t1 == [t EXCEPT !.logged = IF log_access_attempts THEN @ + 1 ELSE @] IN
         IF /\ t.operation \in self_service_operations
            /\ t.operation \notin admin_operations
            /\ t.target_user = t.user_id
         THEN Finish(t1, Decision(TRUE, "Self-service operation"))
         ELSE IsUserAdminStart(t1)

(* rbac.py:129-141 *)
CheckStart(t) ==
    IF ~rbac_enabled THEN Finish(t, Decision(TRUE, "RBAC disabled"))
    ELSE LET t1 == [t EXCEPT !.logged = IF log_access_attempts THEN @ + 1 ELSE @] IN
         IF t.operation \in self_service_operations /\ t.target_user = t.user_id
         THEN Finish(t1, Decision(TRUE, "Self-service operation"))
         ELSE IsUserAdminStart(t1)

(* A running task: its locals (t), the two caches as it leaves them (u, g) *)
(* and the last resolution of each username (log).                         *)
Ctx(t) == [t |-> t, u |-> username_to_id_cache, g |-> group_membership_cache,
           log |-> resolutions, mlog |-> memberships]

NoResolution == [end |-> 0, calls |-> -1, result |-> None, cleared |-> FALSE,
                 entry |-> None]
NoMembership == [end |-> -1, result |-> FALSE, cleared |-> FALSE, raced |-> FALSE]
(* what is left of a membership that was cached when the cache was cleared *)
ClearedMembership ==
    [end |-> -1, result |-> FALSE, cleared |-> TRUE, raced |-> FALSE]

(* a use of a cache entry: its key and its age at the time *)
Hit(t, cache, cache_key) ==
    [t EXCEPT !.hits = @ \cup {[key |-> cache_key,
                                age |-> now - cache[cache_key].timestamp]}]

(* rbac.py:168-169  the value resolve_admin_entry_to_user_id returned for   *)
(* one entry is compared with the requester; the locals of the resolver    *)
(* are gone                                                                *)
AfterResolve(c, admin_entry, user_id) ==
    LET t == c.t
        prior == IF t.username \in DOMAIN c.log THEN c.log[t.username]
                 ELSE NoResolution
        t1 == [t EXCEPT !.resolved = @ \cup {[admin_entry |-> admin_entry,
                            user_id |-> user_id, start |-> t.res_start,
                            calls |-> t.res_calls, prior |-> prior]},
                        !.admin_entry = None, !.username = None,
                        !.res_start = 0, !.res_calls = 0]
        c1 == [c EXCEPT !.log = IF IsUserIdFormat(admin_entry) THEN @
                                ELSE CachePut(@, t.username,
                                        [end |-> now, calls |-> t.res_calls,
                                         result |-> user_id, cleared |-> FALSE,
                                         entry |-> admin_entry])]
    IN
    IF user_id = t.user_id THEN [c1 EXCEPT !.t = Decide(t1, TRUE)]
    ELSE [c1 EXCEPT !.t = [t1 EXCEPT !.pc = "admin_loop"]]

(* rbac.py:178-195  resolve_admin_entry_to_user_id up to the directory call *)
ResolveStart(c, admin_entry) ==
    IF IsUserIdFormat(admin_entry)
    THEN AfterResolve([c EXCEPT !.t.res_start = now], admin_entry, admin_entry)
    ELSE LET username == lstrip(admin_entry, "@")
             cache_key == UsernameKey(username)
             c1 == [c EXCEPT !.t.admin_entry = admin_entry,
                             !.t.username = username, !.t.res_start = now]
         IN
         IF CacheValid(c.u, cache_key)
         THEN AfterResolve([c1 EXCEPT !.t = Hit(@, c.u, cache_key)], admin_entry,
                           c.u[cache_key].user_id)
         ELSE [c1 EXCEPT !.t.pc = "users_list", !.t.calls = @ + 1,
                         !.t.res_calls = 1]

(* CacheResolved that caches a resolution that found nobody as well *)
CacheResolved_Negative(cache, username, user_id) ==
    CachePut(cache, UsernameKey(username),
             [user_id |-> user_id, timestamp |-> now])

(* rbac.py:198-202  only a found user id is cached *)
CacheResolved(cache, username, user_id) ==
    IF user_id # None
    THEN CachePut(cache, UsernameKey(username),
                  [user_id |-> user_id, timestamp |-> now])
    ELSE cache

(* ResolveEnd that caches the requester for the handle *)
ResolveEnd_CachesRequester(c, user_id) ==
    AfterResolve([c EXCEPT !.u = CacheResolved(c.u, c.t.username, c.t.user_id)],
                 c.t.admin_entry, user_id)

(* ResolveEnd that caches under the entry as it is written *)
ResolveEnd_KeyedByEntry(c, user_id) ==
    AfterResolve([c EXCEPT !.u = CacheResolved(c.u, c.t.admin_entry, user_id)],
                 c.t.admin_entry, user_id)

(* rbac.py:197-204  the directory's answer is cached and goes to the caller *)
ResolveEnd(c, user_id) ==
    AfterResolve([c EXCEPT !.u = CacheResolved(c.u, c.t.username, user_id)],
                 c.t.admin_entry, user_id)

(* is_user_in_group has returned is_member: what the query did is kept,    *)
(* its locals are gone                                                     *)
GroupReturned(c, is_member) ==
    LET t == c.t
        cache_key == GroupKey(t.user_id, t.group_name)
        prior == IF cache_key \in DOMAIN c.mlog THEN c.mlog[cache_key]
                 ELSE NoMembership
    IN
    [c EXCEPT
        !.t = [t EXCEPT !.member = @ \cup {<<t.group_name, is_member>>},
                        !.queried = @ \cup {[group_name |-> t.group_name,
                             is_member |-> is_member, start |-> t.grp_start,
                             calls |-> t.grp_calls, cached |-> t.grp_cached,
                             prior |-> prior]},
                        !.group_name = None, !.usergroups = <<>>,
                        !.grp_start = 0, !.grp_calls = 0, !.grp_cached = FALSE,
                        !.grp_raced = FALSE],
        !.mlog = IF t.grp_cached
                 THEN CachePut(@, cache_key, [end |-> now, result |-> is_member,
                                              cleared |-> FALSE,
                                              raced |-> t.grp_raced])
                 ELSE @]

(* AfterGroup that goes on to the next group whatever is_user_in_group says *)
AfterGroup_Ignored(c, is_member) ==
    [GroupReturned(c, is_member) EXCEPT !.t.pc = "group_loop"]

(* rbac.py:173-176  the value is_user_in_group returned for one group *)
AfterGroup(c, is_member) ==
    LET c1 == GroupReturned(c, is_member) IN
    IF is_member THEN [c1 EXCEPT !.t = Decide(c1.t, TRUE)]
    ELSE [c1 EXCEPT !.t.pc = "group_loop"]

(* rbac.py:240-252  is_user_in_group up to the directory call *)
GroupStart(c, group_name) ==
    LET cache_key == GroupKey(c.t.user_id, group_name)
        c1 == [c EXCEPT !.t.group_name = group_name, !.t.grp_start = now]
    IN
    IF CacheValid(c.g, cache_key)
    THEN AfterGroup([c1 EXCEPT !.t = Hit(@, c.g, cache_key)],
                    c.g[cache_key].is_member)
    ELSE [c1 EXCEPT !.t.pc = "usergroups_list", !.t.calls = @ + 1,
                    !.t.grp_calls = 1]

(* rbac.py:255-260  next usergroup with the handle, or the loop's end *)
NextUsergroup(c, usergroups) ==
    LET rest == FromHandle(usergroups, c.t.group_name) IN
    IF rest = <<>> THEN AfterGroup(c, FALSE)
    ELSE [c EXCEPT !.t.pc = "usergroups_users_list", !.t.usergroups = rest,
                   !.t.calls = @ + 1, !.t.grp_calls = @ + 1]

(* rbac.py:262-271  the membership is cached and returned *)
CacheMembership(cache, user_id, group_name, is_member) ==
    CachePut(cache, GroupKey(user_id, group_name),
             [is_member |-> is_member, timestamp |-> now])

GroupEnd(c, is_member) ==
    AfterGroup([c EXCEPT !.g = CacheMembership(c.g, c.t.user_id, c.t.group_name,
                                                is_member),
                         !.t.grp_cached = TRUE],
               is_member)

(* rbac.py:167-176  the loops of is_user_admin over admin_users and then    *)
(* over admin_groups, in any order of the sets, up to the next await or    *)
(* the return of check_user_permission                                     *)
RECURSIVE Continue(_)
Continue(c) ==
    IF c.t.pc = "admin_loop"
    THEN IF c.t.entries = {}
         THEN Continue([c EXCEPT !.t.pc = "group_loop", !.t.groups = admin_groups])
         ELSE UNION {Continue(ResolveStart([c EXCEPT !.t.entries = @ \ {e}], e)) :
                         e \in c.t.entries}
    ELSE IF c.t.pc = "group_loop"
    THEN IF c.t.groups = {}
         THEN {[c EXCEPT !.t = Decide(c.t, FALSE)]}
         ELSE UNION {Continue(GroupStart([c EXCEPT !.t.groups = @ \ {g}], g)) :
                         g \in c.t.groups}
    ELSE {c}

----------------------------------------------------------------------------
(* Steps: a task runs from where it was resumed to its next await *)
Run(p, c0) ==
    \E c \in Continue(c0) :
        /\ task' = [task EXCEPT ![p] = c.t]
        /\ username_to_id_cache' = c.u
        /\ group_membership_cache' = c.g
        /\ resolutions' = c.log
        /\ memberships' = c.mlog

Raised(outcome) == outcome \in {"SlackApiError", "Exception"}
Answered(outcome) == all_calls_raised' = (all_calls_raised /\ Raised(outcome))

(* the attributes of the manager that make its policy *)
CurrentPolicy ==
    [rbac_enabled |-> rbac_enabled, admin_users |-> admin_users,
     admin_groups |-> admin_groups, admin_operations |-> admin_operations,
     user_operations |-> user_operations,
     self_service_operations |-> self_service_operations,
     notify_admin_on_denied |-> notify_admin_on_denied,
     log_access_attempts |-> log_access_attempts]

(* a caller awaits check_user_permission(user_id, operation, target_user) *)
check_user_permission(p, user_id, operation, target_user) ==
    /\ task[p].pc = "idle"
    /\ budget.calls > 0
    /\ budget' = [budget EXCEPT !.calls = @ - 1]
    /\ Run(p, Ctx(CheckStart([IdleTask EXCEPT !.user_id = user_id,
                  !.operation = operation, !.target_user = target_user,
                  !.policy0 = CurrentPolicy,
                  !.raced0 = {k \in DOMAIN group_membership_cache :
                                 k \in DOMAIN memberships /\ memberships[k].raced}])))
    /\ UNCHANGED <<policy, now, slack, bot, applied, all_calls_raised>>

(* rbac.py:208-238  resolve_username_to_user_id resumes after users_list *)
users_list(p, outcome) ==
    LET c == Ctx(task[p])
        found == IF outcome = "ok" THEN ScanMembers(slack.members, c.t.username)
                 ELSE None
    IN
    /\ c.t.pc = "users_list"
    /\ Answered(outcome)
    /\ CASE outcome = "Exception" ->
                \* not a SlackApiError: nothing catches it up to the caller
                Run(p, [c EXCEPT !.t = Raise(c.t)])
         [] outcome = "SlackApiError" ->
                \* rbac.py:235-238
                Run(p, AfterResolve(c, c.t.admin_entry, None))
         [] OTHER ->
                IF found = None /\ contains(c.t.username, "@")
                THEN \* rbac.py:227-229
                     Run(p, [c EXCEPT !.t.pc = "users_lookupByEmail",
                                      !.t.calls = @ + 1, !.t.res_calls = @ + 1])
                ELSE Run(p, ResolveEnd(c, found))
    /\ UNCHANGED <<policy, now, slack, bot, applied, budget>>

(* rbac.py:229-233  after users_lookupByEmail; Slack answers an unknown     *)
(* email with an error, not with a response                                *)
users_lookupByEmail(p, outcome) ==
    LET c == Ctx(task[p])
        owners == EmailOwners(c.t.username)
    IN
    /\ c.t.pc = "users_lookupByEmail"
    /\ outcome = "ok" => owners # {}
    /\ Answered(outcome)
    /\ CASE outcome = "Exception" -> Run(p, [c EXCEPT !.t = Raise(c.t)])
         [] outcome = "ok" -> \E user_id \in owners : Run(p, ResolveEnd(c, user_id))
         [] outcome = "not_ok" -> Run(p, ResolveEnd(c, None))
         [] OTHER -> \* rbac.py:232-233
                     Run(p, AfterResolve(c, c.t.admin_entry, None))
    /\ UNCHANGED <<policy, now, slack, bot, applied, budget>>

(* usergroups_list that takes a failed listing for a membership *)
usergroups_list_FailOpen(p, outcome) ==
    LET c == Ctx(task[p]) IN
    /\ c.t.pc = "usergroups_list"
    /\ Answered(outcome)
    /\ CASE outcome = "Exception" -> Run(p, [c EXCEPT !.t = Raise(c.t)])
         [] outcome = "ok" -> Run(p, NextUsergroup(c, slack.usergroups))
         [] OTHER -> Run(p, AfterGroup(c, TRUE))
    /\ UNCHANGED <<policy, now, slack, bot, applied, budget>>

(* rbac.py:252-256 and 273-276  is_user_in_group after usergroups_list *)
usergroups_list(p, outcome) ==
    LET c == Ctx(task[p]) IN
    /\ c.t.pc = "usergroups_list"
    /\ Answered(outcome)
    /\ CASE outcome = "Exception" -> Run(p, [c EXCEPT !.t = Raise(c.t)])
         [] outcome = "ok" -> Run(p, NextUsergroup(c, slack.usergroups))
         [] OTHER -> Run(p, AfterGroup(c, FALSE))
    /\ UNCHANGED <<policy, now, slack, bot, applied, budget>>

(* rbac.py:258-276  is_user_in_group after usergroups_users_list *)
usergroups_users_list(p, outcome) ==
    LET c == Ctx(task[p])
        is_member == c.t.user_id \in slack.users[Head(c.t.usergroups).id]
    IN
    /\ c.t.pc = "usergroups_users_list"
    /\ Answered(outcome)
    /\ CASE outcome = "Exception" -> Run(p, [c EXCEPT !.t = Raise(c.t)])
         [] outcome = "SlackApiError" -> Run(p, AfterGroup(c, FALSE))
         [] outcome = "not_ok" ->
                \* the loop over the listed usergroups goes on
                Run(p, NextUsergroup(c, Tail(c.t.usergroups)))
         [] OTHER -> Run(p, GroupEnd(c, is_member))
    /\ UNCHANGED <<policy, now, slack, bot, applied, budget>>

(* rbac.py:155  the decision returned after the notification *)
Denied(t) == Finish([t EXCEPT !.recipients = {}],
                    Decision(FALSE, "Admin privileges required"))

(* rbac.py:294-296  the loop over admin_users: the next admin to notify,   *)
(* or the end of the notification                                          *)
NotifyNext(t, recipients) ==
    IF recipients = {} THEN {Denied(t)}
    ELSE {[t EXCEPT !.pc = "chat_postMessage", !.recipients = recipients \ {a},
                    !.attempted = @ \cup {a}, !.calls = @ + 1] : a \in recipients}

(* rbac.py:280-301  notify_admin_of_denied_access after users_info *)
users_info(p, outcome) ==
    LET t == task[p] IN
    /\ t.pc = "users_info"
    /\ Answered(outcome)
    /\ IF Raised(outcome)
       THEN \* rbac.py:300-301  except Exception
            Run(p, Ctx(Denied(t)))
       ELSE \E t2 \in NotifyNext(t, admin_users) : Run(p, Ctx(t2))
    /\ UNCHANGED <<policy, now, slack, bot, applied, budget>>

(* chat_postMessage without the except Exception around the notification *)
chat_postMessage_Propagates(p, outcome) ==
    LET t == task[p] IN
    /\ t.pc = "chat_postMessage"
    /\ Answered(outcome)
    /\ IF outcome = "Exception"
       THEN Run(p, Ctx(Raise(t)))
       ELSE \E t2 \in NotifyNext(t, t.recipients) : Run(p, Ctx(t2))
    /\ UNCHANGED <<policy, now, slack, bot, applied, budget>>

(* rbac.py:294-301  after chat_postMessage to one admin *)
chat_postMessage(p, outcome) ==
    LET t == task[p] IN
    /\ t.pc = "chat_postMessage"
    /\ Answered(outcome)
    /\ IF outcome = "Exception"
       THEN \* leaves the loop: caught by the outer except Exception
            Run(p, Ctx(Denied(t)))
       ELSE \* delivered, or SlackApiError caught at rbac.py:297
            \E t2 \in NotifyNext(t, t.recipients) : Run(p, Ctx(t2))
    /\ UNCHANGED <<policy, now, slack, bot, applied, budget>>

(* the caller takes the decision, or the exception *)
Return(p) ==
    /\ task[p].pc \in {"done", "raised"}
    /\ task' = [task EXCEPT ![p] = IdleTask]
    /\ UNCHANGED <<policy, caches, now, slack, bot, history, applied,
                   all_calls_raised, budget>>

----------------------------------------------------------------------------
(* Runtime changes of the configuration and the environment *)

(* the dicts passed to update_configuration: a record has the given keys *)
ConfigUpdates == {
    [admin_users |-> {bare_alice}, admin_groups |-> {dba}],
    [admin_operations |-> {"drop_universe"}, user_operations |-> {"create_cluster"},
     rbac_enabled |-> TRUE],
    [rbac_enabled |-> FALSE, self_service_operations |-> {},
     notify_admin_on_denied |-> FALSE, log_access_attempts |-> FALSE] }

(* rbac.py:391-401  a key of the dict replaces the field, if it is handled *)
Updated(config_updates, key, current) ==
    IF key \in DOMAIN config_updates THEN config_updates[key] ELSE current

InFlight(t) == t.pc \notin {"idle", "done", "raised"}

(* is_user_in_group awaits Slack (rbac.py:252, 257) *)
InGroupQuery(t) == t.pc \in {"usergroups_list", "usergroups_users_list"}

(* the group cache is cleared under the calls that are under way *)
Overtaken(t, by_update) ==
    [t EXCEPT !.updated = @ \/ (by_update /\ InFlight(t)),
              !.grp_raced = @ \/ InGroupQuery(t)]

(* the resolutions that found a user are from before a clearing of caches *)
Cleared(log) ==
    [k \in DOMAIN log |-> [log[k] EXCEPT !.cleared = (log[k].result # None)]]

(* update_configuration that takes a key it is not given as an empty set *)
update_configuration_Replacing(config_updates) ==
    /\ budget.events > 0
    /\ budget' = [budget EXCEPT !.events = @ - 1]
    /\ admin_users' = Updated(config_updates, "admin_users", admin_users)
    /\ admin_groups' = Updated(config_updates, "admin_groups", {})
    /\ admin_operations' = Updated(config_updates, "admin_operations", admin_operations)
    /\ user_operations' = Updated(config_updates, "user_operations", user_operations)
    /\ rbac_enabled' = Updated(config_updates, "rbac_enabled", rbac_enabled)
    /\ group_membership_cache' = EmptyCache
    /\ task' = [p \in Tasks |-> Overtaken(task[p], TRUE)]
    /\ applied' = config_updates
    /\ resolutions' = Cleared(resolutions)
    /\ memberships' = [k \in DOMAIN memberships |-> ClearedMembership]
    /\ UNCHANGED <<self_service_operations, notify_admin_on_denied,
                   log_access_attempts, username_to_id_cache, now, slack, bot,
                   all_calls_raised>>

(* rbac.py:389-406 *)
update_configuration(config_updates) ==
    /\ budget.events > 0
    /\ budget' = [budget EXCEPT !.events = @ - 1]
    /\ admin_users' = Updated(config_updates, "admin_users", admin_users)
    /\ admin_groups' = Updated(config_updates, "admin_groups", admin_groups)
    /\ admin_operations' = Updated(config_updates, "admin_operations", admin_operations)
    /\ user_operations' = Updated(config_updates, "user_operations", user_operations)
    /\ rbac_enabled' = Updated(config_updates, "rbac_enabled", rbac_enabled)
    /\ group_membership_cache' = EmptyCache
    /\ task' = [p \in Tasks |-> Overtaken(task[p], TRUE)]
    /\ applied' = config_updates
    /\ resolutions' = Cleared(resolutions)
    /\ memberships' = [k \in DOMAIN memberships |-> ClearedMembership]
    /\ UNCHANGED <<self_service_operations, notify_admin_on_denied,
                   log_access_attempts, username_to_id_cache, now, slack, bot,
                   all_calls_raised>>

(* clear_cache that leaves the group membership cache as it is *)
clear_cache_Kept ==
    /\ budget.events > 0
    /\ budget' = [budget EXCEPT !.events = @ - 1]
    /\ resolutions' = Cleared(resolutions)
    /\ memberships' = [k \in DOMAIN memberships |-> ClearedMembership]
    /\ task' = [p \in Tasks |-> Overtaken(task[p], FALSE)]
    /\ UNCHANGED <<policy, caches, now, slack, bot, applied, all_calls_raised>>

(* rbac.py:384-387 *)
clear_cache ==
    /\ budget.events > 0
    /\ budget' = [budget EXCEPT !.events = @ - 1]
    /\ group_membership_cache' = EmptyCache
    /\ resolutions' = Cleared(resolutions)
    /\ memberships' = [k \in DOMAIN memberships |-> ClearedMembership]
    /\ task' = [p \in Tasks |-> Overtaken(task[p], FALSE)]
    /\ UNCHANGED <<policy, username_to_id_cache, now, slack, bot, applied,
                   all_calls_raised>>

(* time passes *)
Tick(seconds) ==
    /\ budget.events > 0
    /\ budget' = [budget EXCEPT !.events = @ - 1]
    /\ now' = now + seconds
    /\ UNCHANGED <<policy, caches, slack, bot, task, history, applied,
                   all_calls_raised>>

----------------------------------------------------------------------------
Targets == Users \cup {None}

(* no call is under way *)
Quiet == \A p \in Tasks : task[p].pc = "idle"

(* the manager used by one caller: one call after the other, and between   *)
(* the calls the configuration is updated, time passes, Slack changes      *)
Next ==
    \/ \E user_id \in Users, operation \in Operations, target_user \in Targets :
           check_user_permission("t1", user_id, operation, target_user)
    \/ \E outcome \in Outcomes : users_list("t1", outcome)
    \/ \E outcome \in Outcomes : users_lookupByEmail("t1", outcome)
    \/ \E outcome \in Outcomes : usergroups_list("t1", outcome)
    \/ \E outcome \in Outcomes : usergroups_users_list("t1", outcome)
    \/ \E outcome \in Outcomes : users_info("t1", outcome)
    \/ \E outcome \in Outcomes : chat_postMessage("t1", outcome)
    \/ Return("t1")
    \/ \E config_updates \in ConfigUpdates : Quiet /\ update_configuration(config_updates)
    \/ Quiet /\ clear_cache
    \/ \E seconds \in TickSteps : Quiet /\ Tick(seconds)

Spec == Init /\ [][Next]_vars

----------------------------------------------------------------------------
(* The manager used by two callers at once (two coroutines of one event    *)
(* loop), with Slack answering every call, while the configuration is      *)
(* updated and the cache cleared at any await.                             *)

(* an admin named by a group, and an admin named by handle and by group *)
ConcConfigFiles == {
    Config(TRUE, {nobody}, {dba}, DisjointOps.admin, DisjointOps.user,
           DisjointOps.self, FALSE, TRUE),
    Config(TRUE, {at_alice}, {dba}, DisjointOps.admin, DisjointOps.user,
           DisjointOps.self, FALSE, TRUE) }

(* the admin is moved from the group to the list of admin users *)
ConcConfigUpdates == { [admin_users |-> {at_alice}, admin_groups |-> {ops}] }

ConcOperations == {"create_cluster", "list_clusters"}
ConcOutcomes == {"ok"}

InitConc ==
    /\ \E c \in ConcConfigFiles : load_configuration(c)
    /\ group_membership_cache = EmptyCache
    /\ username_to_id_cache = EmptyCache
    /\ now = 0
    /\ slack \in Workspaces
    /\ task = [p \in Tasks |-> IdleTask]
    /\ resolutions = EmptyCache
    /\ memberships = EmptyCache
    /\ applied = NoUpdate
    /\ all_calls_raised = TRUE
    /\ budget = [calls |-> MaxCalls, events |-> MaxEvents]
    /\ bot = NewBot

NextConc ==
    \/ \E p \in Tasks, user_id \in Users, operation \in ConcOperations :
           check_user_permission(p, user_id, operation, None)
    \/ \E p \in Tasks, outcome \in ConcOutcomes : users_list(p, outcome)
    \/ \E p \in Tasks, outcome \in ConcOutcomes : usergroups_list(p, outcome)
    \/ \E p \in Tasks, outcome \in ConcOutcomes : usergroups_users_list(p, outcome)
    \/ \E p \in Tasks : Return(p)
    \/ \E config_updates \in ConcConfigUpdates : update_configuration(config_updates)
    \/ clear_cache

SpecConc == InitConc /\ [][NextConc]_vars

----------------------------------------------------------------------------
(* Properties of check_user_permission.  A call is described by the locals *)
(* of its task; the configuration a call ran under is the current one      *)
(* unless update_configuration ran while the call was suspended.           *)

Returned(t) == t.pc = "done"
Called(t) == t.pc # "idle"
SameConfig(t) == ~t.updated
SelfService(t) ==
    t.operation \in self_service_operations /\ t.target_user = t.user_id

(* C1: while RBAC is disabled every call of check_user_permission returns  *)
(* at once with allowed = TRUE and reason "RBAC disabled", whoever asks,   *)
(* for whatever operation and target.                                      *)
C1_DisabledAllowsAll ==
    \A p \in Tasks :
        (Called(task[p]) /\ SameConfig(task[p]) /\ ~rbac_enabled)
            => /\ Returned(task[p])
               /\ task[p].result = Decision(TRUE, "RBAC disabled")

C1_Witness ==
    \E p \in Tasks :
        /\ Returned(task[p]) /\ ~rbac_enabled
        /\ task[p].operation \in admin_operations \ user_operations
        /\ task[p].user_id \notin admin_users
        /\ task[p].target_user # task[p].user_id
        /\ task[p].result = Decision(TRUE, "RBAC disabled")

(* C2: with RBAC enabled, an operation that is both a self-service and an  *)
(* admin operation, asked with the requester as target, is allowed with    *)
(* reason "Self-service operation", and that is decided before the admin   *)
(* check: is_user_admin has not run, no Slack call and no notification     *)
(* has been made.                                                          *)
C2_SelfServiceFirst ==
    \A p \in Tasks :
        (/\ Called(task[p]) /\ SameConfig(task[p]) /\ rbac_enabled
         /\ task[p].operation \in admin_operations
         /\ SelfService(task[p]))
            => /\ Returned(task[p])
               /\ task[p].result = Decision(TRUE, "Self-service operation")
               /\ task[p].is_admin = "unset"
               /\ task[p].calls = 0
               /\ task[p].notified = 0

C2_Witness ==
    \E p \in Tasks :
        /\ Returned(task[p]) /\ rbac_enabled
        /\ task[p].operation \in admin_operations \ user_operations
        /\ SelfService(task[p])
        /\ task[p].user_id \notin admin_users
        /\ task[p].result = Decision(TRUE, "Self-service operation")

(* C3: with RBAC enabled and the self-service rule not matching, a         *)
(* requester for whom is_user_admin returned true gets allowed = TRUE with *)
(* reason "Admin user" for every operation; so does every requester that   *)
(* is in admin_users.  An admin is never denied.                           *)
C3_AdminAlwaysAllowed ==
    \A p \in Tasks :
        /\ (Returned(task[p]) /\ task[p].is_admin = "yes")
               => task[p].result = Decision(TRUE, "Admin user")
        /\ (/\ Returned(task[p]) /\ SameConfig(task[p]) /\ rbac_enabled
            /\ ~SelfService(task[p])
            /\ task[p].user_id \in admin_users)
               => task[p].result = Decision(TRUE, "Admin user")

C3_Witness ==
    \E p \in Tasks :
        /\ Returned(task[p]) /\ task[p].is_admin = "yes"
        /\ task[p].user_id \notin admin_users
        /\ task[p].operation \in user_operations
        /\ task[p].result = Decision(TRUE, "Admin user")

(* C4: with RBAC enabled, an operation in admin_operations and not in      *)
(* user_operations, asked by a requester for whom is_user_admin returned   *)
(* false, is denied with reason "Admin privileges required", and           *)
(* notify_admin_of_denied_access has been invoked once if                  *)
(* notify_admin_on_denied is set and not at all if it is not.              *)
C4_AdminRequired ==
    \A p \in Tasks :
        (/\ Returned(task[p]) /\ SameConfig(task[p]) /\ rbac_enabled
         /\ task[p].is_admin = "no"
         /\ task[p].operation \in admin_operations \ user_operations)
            => /\ task[p].result = Decision(FALSE, "Admin privileges required")
               /\ task[p].notified = IF notify_admin_on_denied THEN 1 ELSE 0

C4_Witness ==
    \E p \in Tasks :
        /\ Returned(task[p]) /\ rbac_enabled /\ notify_admin_on_denied
        /\ task[p].is_admin = "no"
        /\ task[p].operation \in admin_operations \ user_operations
        /\ task[p].result = Decision(FALSE, "Admin privileges required")
        /\ task[p].notified = 1
        /\ task[p].attempted = admin_users /\ admin_users # {}

(* C5: with RBAC enabled, an operation that is neither a user nor an admin *)
(* operation, asked by a requester for whom is_user_admin returned false   *)
(* (so the self-service rule did not match), is denied with reason         *)
(* "Unknown operation"; and whenever a call returns allowed = TRUE, RBAC   *)
(* is disabled, or the self-service rule matched, or the requester is an   *)
(* admin, or the operation is a user operation.                            *)
C5_UnknownDenied ==
    \A p \in Tasks :
        /\ (/\ Returned(task[p]) /\ SameConfig(task[p]) /\ rbac_enabled
            /\ task[p].is_admin = "no"
            /\ task[p].operation \notin user_operations \cup admin_operations)
               => task[p].result = Decision(FALSE, "Unknown operation")
        /\ (Returned(task[p]) /\ SameConfig(task[p]) /\ task[p].result.allowed)
               => \/ ~rbac_enabled
                  \/ SelfService(task[p])
                  \/ task[p].is_admin = "yes"
                  \/ task[p].operation \in user_operations

C5_Witness ==
    \E p \in Tasks :
        /\ Returned(task[p]) /\ rbac_enabled
        /\ task[p].is_admin = "no"
        /\ task[p].operation = "drop_universe"
        /\ task[p].operation \notin user_operations \cup admin_operations
        /\ task[p].result = Decision(FALSE, "Unknown operation")

(* C6: with RBAC enabled, an operation in user_operations asked by a       *)
(* requester for whom is_user_admin returned false is allowed with reason  *)
(* "User operation", also when it is in admin_operations too; nobody is    *)
(* notified.                                                               *)
C6_UserOperation ==
    \A p \in Tasks :
        (/\ Returned(task[p]) /\ SameConfig(task[p]) /\ rbac_enabled
         /\ task[p].is_admin = "no"
         /\ task[p].operation \in user_operations)
            => /\ task[p].result = Decision(TRUE, "User operation")
               /\ task[p].notified = 0

C6_Witness ==
    \E p \in Tasks :
        /\ Returned(task[p]) /\ rbac_enabled
        /\ task[p].is_admin = "no"
        /\ task[p].operation \in user_operations \cap admin_operations
        /\ task[p].result = Decision(TRUE, "User operation")

----------------------------------------------------------------------------
(* is_user_admin and the resolvers.  task.resolved holds what               *)
(* resolve_admin_entry_to_user_id returned for each entry it was asked     *)
(* about in the call, task.member what is_user_in_group returned.          *)

IsAdminReturned(t) == t.is_admin # "unset"
ResolvedTo(t, user_id) == \E r \in t.resolved : r.user_id = user_id
MemberOfSome(t) == \E m \in t.member : m[2]

(* C7: is_user_admin returns true exactly if the requester is in           *)
(* admin_users, or resolve_admin_entry_to_user_id returned the requester   *)
(* for an entry of admin_users, or is_user_in_group returned true for a    *)
(* group of admin_groups; it returns false only after every entry and      *)
(* every group has been asked about.                                       *)
C7_IsUserAdmin ==
    \A p \in Tasks :
        (IsAdminReturned(task[p]) /\ SameConfig(task[p])) =>
            /\ (task[p].is_admin = "yes") <=>
                   \/ task[p].user_id \in admin_users
                   \/ ResolvedTo(task[p], task[p].user_id)
                   \/ MemberOfSome(task[p])
            /\ {r.admin_entry : r \in task[p].resolved} \subseteq admin_users
            /\ {m[1] : m \in task[p].member} \subseteq admin_groups
            /\ task[p].is_admin = "no" =>
                   /\ \A e \in admin_users :
                          \E r \in task[p].resolved : r.admin_entry = e
                   /\ \A g \in admin_groups : <<g, FALSE>> \in task[p].member

(* "@alice" in admin_users resolves to U2, which makes U2 an admin *)
C7_Witness ==
    \E p \in Tasks :
        /\ task[p].is_admin = "yes"
        /\ task[p].user_id = U2 /\ U2 \notin admin_users
        /\ at_alice \in admin_users
        /\ [admin_entry |-> at_alice, user_id |-> U2, start |-> now, calls |-> 1,
            prior |-> NoResolution] \in task[p].resolved
        /\ ~MemberOfSome(task[p])
        /\ task[p].result = Decision(TRUE, "Admin user")

(* C8 as claimed: while every call of the Slack client has raised,         *)
(* is_user_admin returns false for every requester and no call is allowed  *)
(* for an operation that needs admin privileges.                           *)
C8_Claimed ==
    \A p \in Tasks :
        (all_calls_raised /\ SameConfig(task[p])) =>
            /\ IsAdminReturned(task[p]) => task[p].is_admin = "no"
            /\ (/\ Returned(task[p]) /\ rbac_enabled /\ ~SelfService(task[p])
                /\ task[p].operation \in admin_operations \ user_operations)
                   => ~task[p].result.allowed

(* C8 as amended: while every call of the Slack client has raised,         *)
(* is_user_admin returns true only for the requesters that are literally   *)
(* in admin_users, and an operation that needs admin privileges is allowed *)
(* to nobody else.                                                         *)
C8_FailClosed ==
    \A p \in Tasks :
        (all_calls_raised /\ SameConfig(task[p])) =>
            /\ IsAdminReturned(task[p]) =>
                   (task[p].is_admin = "yes" <=> task[p].user_id \in admin_users)
            /\ (/\ Returned(task[p]) /\ rbac_enabled /\ ~SelfService(task[p])
                /\ task[p].operation \in admin_operations \ user_operations)
                   => (task[p].result.allowed <=> task[p].user_id \in admin_users)

(* every call failed for a requester whom the directory would make admin *)
C8_Witness ==
    \E p \in Tasks :
        /\ all_calls_raised /\ Returned(task[p]) /\ rbac_enabled
        /\ task[p].user_id = U2 /\ at_alice \in admin_users /\ dba \in admin_groups
        /\ task[p].calls >= 2
        /\ task[p].is_admin = "no"
        /\ task[p].operation \in admin_operations \ user_operations
        /\ ~task[p].result.allowed

(* C9 as claimed: no call of check_user_permission ends with an exception  *)
C9_Claimed == \A p \in Tasks : task[p].pc # "raised"

(* C10 as claimed: when a handle is resolved by the directory and then     *)
(* again within the TTL, the two resolutions issue one Slack call in all;  *)
(* when it is resolved again after the TTL, Slack is called again.         *)
FromDirectory(r) == r.prior.calls >= 1
Age(r) == r.start - r.prior.end

C10_Claimed ==
    \A p \in Tasks : \A r \in task[p].resolved :
        FromDirectory(r) =>
            /\ Age(r) < cache_ttl => r.prior.calls + r.calls = 1
            /\ Age(r) >= cache_ttl => r.calls >= 1

(* C10 as amended: a handle that the directory resolved to a user (with    *)
(* one users_list call, and one users_lookupByEmail call more if the       *)
(* handle has an "@" and the listing did not have it) is resolved again    *)
(* within the TTL without any Slack call and to the same user; after the   *)
(* TTL, and whenever the directory found no user, Slack is called again.   *)
C10_CachedWithinTtl ==
    \A p \in Tasks : \A r \in task[p].resolved :
        FromDirectory(r) =>
            /\ (r.prior.result # None /\ Age(r) < cache_ttl)
                   => r.calls = 0 /\ r.user_id = r.prior.result
            /\ (r.prior.result = None \/ Age(r) >= cache_ttl) => r.calls >= 1
            /\ r.prior.calls \in {1, 2}
            /\ r.prior.calls = 2 => contains(lstrip(r.admin_entry, "@"), "@")

C10_Witness ==
    \E p \in Tasks : \E r \in task[p].resolved :
        /\ r.prior.calls = 1 /\ r.prior.result = U2
        /\ Age(r) > 0 /\ Age(r) < cache_ttl
        /\ r.calls = 0 /\ r.user_id = U2

----------------------------------------------------------------------------
(* The caches.  task.queried holds what each is_user_in_group of the call  *)
(* did and the last query of the same key that wrote the cache (prior);    *)
(* task.hits holds the cache entries the call used, with their age.        *)

WasCached(q) == q.prior # NoMembership

(* C11: a membership that was cached when clear_cache or                   *)
(* update_configuration ran is asked of Slack again by the next            *)
(* is_user_in_group for that user and group, and no entry from before the  *)
(* clearing is used.                                                       *)
C11_ClearRequeries ==
    \A p \in Tasks : \A q \in task[p].queried :
        q.prior.cleared =>
            /\ q.calls >= 1
            /\ \A h \in task[p].hits :
                   h.key # GroupKey(task[p].user_id, q.group_name)

(* the clearing came within the TTL: the entry would still have been used *)
C11_Witness ==
    \E p \in Tasks : \E q \in task[p].queried :
        /\ q.prior.cleared
        /\ now = 0
        /\ q.calls = 2 /\ q.cached /\ q.is_member
        /\ task[p].result = Decision(TRUE, "Admin user")

(* C12 as claimed: clear_cache and update_configuration leave no entry in  *)
(* username_to_id_cache either, so that a handle resolved before is asked  *)
(* of Slack again.                                                         *)
C12_Claimed ==
    /\ \A username \in DOMAIN resolutions :
           resolutions[username].cleared =>
               UsernameKey(username) \notin DOMAIN username_to_id_cache
    /\ \A p \in Tasks : \A r \in task[p].resolved :
           r.prior.cleared => r.calls >= 1

(* C13: a cache entry is used only while it is younger than the TTL; when  *)
(* the last entry written for a key is as old as the TTL or older, the     *)
(* lookup calls Slack, and a lookup of a handle that calls nothing has     *)
(* used an entry.                                                          *)
C13_FreshEntriesOnly ==
    \A p \in Tasks :
        /\ \A h \in task[p].hits : 0 <= h.age /\ h.age < cache_ttl
        /\ \A q \in task[p].queried :
               /\ (WasCached(q) /\ ~q.prior.cleared
                   /\ q.start - q.prior.end >= cache_ttl) => q.calls >= 1
               /\ q.calls = 0 =>
                      \E h \in task[p].hits :
                          h.key = GroupKey(task[p].user_id, q.group_name)
        /\ \A r \in task[p].resolved :
               /\ (r.prior.result # None /\ r.start - r.prior.end >= cache_ttl)
                      => r.calls >= 1
               /\ (r.calls = 0 /\ ~IsUserIdFormat(r.admin_entry)) =>
                      \E h \in task[p].hits :
                          h.key = UsernameKey(lstrip(r.admin_entry, "@"))

(* a membership cached 300 s ago is asked of Slack again *)
C13_Witness ==
    \E p \in Tasks : \E q \in task[p].queried :
        /\ WasCached(q) /\ ~q.prior.cleared
        /\ q.start - q.prior.end = cache_ttl
        /\ q.calls = 2 /\ q.cached

(* C14 as claimed: with log_access_attempts set, a call that has returned  *)
(* has logged the access attempt once.                                     *)
C14_Claimed ==
    \A p \in Tasks :
        (Returned(task[p]) /\ log_access_attempts) => task[p].logged = 1

(* C15: once notify_admin_of_denied_access is called, whatever its Slack   *)
(* calls do, no exception leaves check_user_permission and the decision    *)
(* returned is the denial "Admin privileges required".                     *)
C15_NotificationFailureHarmless ==
    \A p \in Tasks :
        task[p].notified >= 1 =>
            /\ task[p].notified = 1
            /\ task[p].pc # "raised"
            /\ Returned(task[p]) =>
                   task[p].result = Decision(FALSE, "Admin privileges required")

(* the alert was being delivered and the loop over the admins was left     *)
(* before its end                                                          *)
C15_Witness ==
    \E p \in Tasks :
        /\ Returned(task[p]) /\ task[p].notified = 1
        /\ task[p].attempted # {} /\ task[p].attempted # admin_users
        /\ SameConfig(task[p])
        /\ task[p].result = Decision(FALSE, "Admin privileges required")

(* C16 as claimed: when the notification has been started, the caller has  *)
(* its decision: it never waits for a Slack call of the notification.      *)
C16_Claimed ==
    \A p \in Tasks : task[p].notified >= 1 => Returned(task[p])

(* C19 as claimed: no failure of a Slack call made by is_user_in_group     *)
(* leaves it as an exception, a query that called Slack and did not write  *)
(* the cache returned false.                                               *)
C19_Claimed ==
    \A p \in Tasks :
        /\ task[p].pc = "raised" => task[p].group_name = None
        /\ \A q \in task[p].queried :
               (q.calls >= 1 /\ ~q.cached) => ~q.is_member

(* the field of the policy that a key of update_configuration names *)
PolicyField(key) ==
    CASE key = "rbac_enabled" -> rbac_enabled
      [] key = "admin_users" -> admin_users
      [] key = "admin_groups" -> admin_groups
      [] key = "admin_operations" -> admin_operations
      [] key = "user_operations" -> user_operations
      [] key = "self_service_operations" -> self_service_operations
      [] key = "notify_admin_on_denied" -> notify_admin_on_denied
      [] key = "log_access_attempts" -> log_access_attempts

(* C20 as claimed: after update_configuration every field named in its     *)
(* dict has the value given there.                                         *)
C20_Claimed ==
    \A key \in DOMAIN applied : PolicyField(key) = applied[key]

----------------------------------------------------------------------------
(* The decision as a function of a policy, the workspace and the request:  *)
(* what check_user_permission returns for a call that runs alone, with     *)
(* empty caches, when Slack answers every call.                            *)

(* rbac.py:178-238  the user id an entry of admin_users resolves to *)
Directory(admin_entry) ==
    IF IsUserIdFormat(admin_entry) THEN admin_entry
    ELSE LET username == lstrip(admin_entry, "@")
             found == ScanMembers(slack.members, username)
         IN
         IF found # None THEN found
         ELSE IF contains(username, "@") /\ EmailOwners(username) # {}
              THEN CHOOSE user_id \in EmailOwners(username) : TRUE
              ELSE None

(* rbac.py:240-276  the first usergroup with the handle has the user *)
InGroup(user_id, group_name) ==
    LET rest == FromHandle(slack.usergroups, group_name) IN
    rest # <<>> /\ user_id \in slack.users[Head(rest).id]

(* rbac.py:160-176 *)
IsAdminOf(pol, user_id) ==
    \/ user_id \in pol.admin_users
    \/ \E admin_entry \in pol.admin_users : Directory(admin_entry) = user_id
    \/ \E group \in pol.admin_groups : InGroup(user_id, group)

(* rbac.py:129-158 *)
DecisionOf(pol, user_id, operation, target_user) ==
    IF ~pol.rbac_enabled THEN Decision(TRUE, "RBAC disabled")
    ELSE IF operation \in pol.self_service_operations /\ target_user = user_id
         THEN Decision(TRUE, "Self-service operation")
    ELSE IF IsAdminOf(pol, user_id) THEN Decision(TRUE, "Admin user")
    ELSE IF operation \in pol.user_operations
         THEN Decision(TRUE, "User operation")
    ELSE IF operation \in pol.admin_operations
         THEN Decision(FALSE, "Admin privileges required")
    ELSE Decision(FALSE, "Unknown operation")

Alone(t, pol) == DecisionOf(pol, t.user_id, t.operation, t.target_user)

(* C17 as claimed: the decision of a call is the decision under the policy *)
(* of before an update_configuration that ran during the call, or the      *)
(* decision under the policy of after it.                                  *)
C17_Claimed ==
    \A p \in Tasks :
        Returned(task[p]) =>
            task[p].result \in {Alone(task[p], task[p].policy0),
                                Alone(task[p], CurrentPolicy)}

(* C18: with the policy unchanged during the call and Slack answering      *)
(* every call, the decision of a call that runs while another call runs    *)
(* is the decision of the call run alone.                                  *)
C18_Independent ==
    \A p \in Tasks :
        (Returned(task[p]) /\ SameConfig(task[p])) =>
            task[p].result = Alone(task[p], task[p].policy0)

(* a call has used the cache entry that another call, still under way,     *)
(* wrote for a handle                                                      *)
C18_Witness ==
    \E p \in Tasks, q \in Tasks :
        /\ p # q /\ Returned(task[p]) /\ InFlight(task[q])
        /\ SameConfig(task[p])
        /\ \E rp \in task[p].resolved, rq \in task[q].resolved :
               /\ rp.admin_entry = rq.admin_entry
               /\ rq.calls = 1 /\ rp.calls = 0
               /\ rp.user_id = rq.user_id /\ rp.user_id # None

----------------------------------------------------------------------------
(* update_configuration and the resolver, continued *)

PolicyKeys == DOMAIN CurrentPolicy

(* C21: update_configuration changes no field of the policy that its dict  *)
(* does not name.                                                          *)
C21_UnnamedFieldsKept ==
    [][\A config_updates \in ConfigUpdates :
           update_configuration(config_updates) =>
               \A key \in PolicyKeys \ DOMAIN config_updates :
                   PolicyField(key)' = PolicyField(key)]_vars

(* admin users and groups were replaced, the rest is as it was loaded *)
C21_Witness ==
    /\ applied = [admin_users |-> {bare_alice}, admin_groups |-> {dba}]
    /\ admin_users = {bare_alice} /\ admin_groups = {dba}
    /\ admin_operations = OverlapOps.admin /\ user_operations = OverlapOps.user
    /\ self_service_operations = OverlapOps.self
    /\ ~notify_admin_on_denied /\ log_access_attempts /\ rbac_enabled

(* the user ids of the workspace *)
CanonicalIds == {alice.id, bob.id, zed.id}

(* C22: an entry of admin_users that is a user id is returned as it is,    *)
(* without a Slack call, without a use of the cache and without an entry   *)
(* written to it.                                                          *)
C22_IdReturnedUnchanged ==
    /\ \A p \in Tasks : \A r \in task[p].resolved :
           r.admin_entry \in CanonicalIds =>
               /\ r.user_id = r.admin_entry
               /\ r.calls = 0
               /\ \A h \in task[p].hits : h.key # UsernameKey(r.admin_entry)
    /\ \A user_id \in CanonicalIds :
           /\ UsernameKey(user_id) \notin DOMAIN username_to_id_cache
           /\ user_id \notin DOMAIN resolutions

C22_Witness ==
    \E p \in Tasks : \E r \in task[p].resolved :
        /\ r.admin_entry = U1 /\ r.user_id = U1 /\ r.calls = 0
        /\ task[p].user_id = U2
        /\ \A h \in task[p].hits : h.key # UsernameKey(U1)

(* the users of the listing who have the handle as their name *)
ExactHandle(username) ==
    {slack.members[i].id : i \in {j \in DOMAIN slack.members :
        ~slack.members[j].deleted /\ slack.members[j].name = username}}

Bare(admin_entry) == lstrip(admin_entry, "@")

(* C27 as claimed: when a user of the listing has the handle as name, the  *)
(* handle resolves to such a user, wherever in the listing a user stands   *)
(* who matches by real name or display name only.                          *)
C27_Claimed ==
    \A p \in Tasks : \A r \in task[p].resolved :
        (/\ r.admin_entry \notin CanonicalIds
         /\ r.user_id # None
         /\ ExactHandle(Bare(r.admin_entry)) # {})
            => r.user_id \in ExactHandle(Bare(r.admin_entry))

(* C28: after "@h" or "h" has been resolved to a user by Slack, the other  *)
(* form resolved within the TTL gives the same user without a Slack call;  *)
(* the cache is keyed by the handle without "@".                           *)
C28_FormsShareEntry ==
    /\ \A p \in Tasks : \A r \in task[p].resolved :
           (/\ r.prior.entry # None /\ r.prior.entry # r.admin_entry
            /\ r.prior.result # None /\ r.prior.calls >= 1
            /\ r.start - r.prior.end < cache_ttl)
               => r.calls = 0 /\ r.user_id = r.prior.result
    /\ \A key \in DOMAIN username_to_id_cache :
           Len(key) >= 2 /\ key[2] # "@"

C28_Witness ==
    \E p \in Tasks : \E r \in task[p].resolved :
        /\ r.admin_entry = bare_alice /\ r.prior.entry = at_alice
        /\ r.prior.calls = 1 /\ r.calls = 0
        /\ r.user_id = r.prior.result /\ r.user_id # None

----------------------------------------------------------------------------
(* is_user_in_group and the caches under two callers *)

(* C29 as claimed: when the workspace has no usergroup with the handle,    *)
(* is_user_in_group answers False and caches the answer for the user and   *)
(* the group.                                                              *)
C29_Claimed ==
    \A p \in Tasks : \A q \in task[p].queried :
        (FromHandle(slack.usergroups, q.group_name) = <<>> /\ q.calls >= 1)
            => ~q.is_member /\ q.cached

----------------------------------------------------------------------------
(* The methods that report on the policy, rbac.py:41-113 and 303-354 *)

(* get_operation_category that looks at user_operations first *)
CategoryOf_UserFirst(operation) ==
    IF operation \in user_operations THEN "user"
    ELSE IF operation \in admin_operations THEN "admin"
    ELSE IF operation \in self_service_operations THEN "self_service"
    ELSE "unknown"

(* rbac.py:315-322 *)
CategoryOf(operation) ==
    IF operation \in admin_operations THEN "admin"
    ELSE IF operation \in user_operations THEN "user"
    ELSE IF operation \in self_service_operations THEN "self_service"
    ELSE "unknown"

(* rbac.py:313-322 *)
get_operation_category(p, operation) ==
    /\ task[p].pc = "idle"
    /\ budget.calls > 0
    /\ budget' = [budget EXCEPT !.calls = @ - 1]
    /\ task' = [task EXCEPT ![p] =
                  [IdleTask EXCEPT !.pc = "done", !.api = "get_operation_category",
                                   !.operation = operation,
                                   !.category = CategoryOf(operation),
                                   !.policy0 = CurrentPolicy]]
    /\ UNCHANGED <<policy, caches, now, slack, bot, history, applied, all_calls_raised>>

(* get_user_permissions that adds the admin operations for an admin user *)
PermissionsOf_AdminsMore(user_id) ==
    [allowed_operations |-> IF user_id \in admin_users
                            THEN user_operations \cup admin_operations
                            ELSE user_operations,
     admin_operations |-> admin_operations,
     self_service_operations |-> self_service_operations]

(* rbac.py:305-311  the lists hold the elements of the sets *)
PermissionsOf(user_id) ==
    [allowed_operations |-> user_operations,
     admin_operations |-> admin_operations,
     self_service_operations |-> self_service_operations]

(* rbac.py:303-311 *)
get_user_permissions(p, user_id) ==
    /\ task[p].pc = "idle"
    /\ budget.calls > 0
    /\ budget' = [budget EXCEPT !.calls = @ - 1]
    /\ task' = [task EXCEPT ![p] =
                  [IdleTask EXCEPT !.pc = "done", !.api = "get_user_permissions",
                                   !.user_id = user_id,
                                   !.permissions = PermissionsOf(user_id),
                                   !.policy0 = CurrentPolicy]]
    /\ UNCHANGED <<policy, caches, now, slack, bot, history, applied, all_calls_raised>>

(* rbac.py:332-339 *)
DirectInfo(user_id, user) ==
    [user_id |-> user_id, username |-> user.name, real_name |-> user.real_name,
     type |-> "direct"]

(* rbac.py:345-352 *)
GroupInfo(group) ==
    [user_id |-> <<"@">> \o group, username |-> group,
     real_name |-> <<"Group: ">> \o group, type |-> "group"]

(* the orders in which a for loop can go through a set *)
RECURSIVE Orderings(_)
Orderings(S) ==
    IF S = {} THEN {<<>>}
    ELSE UNION {{<<e>> \o rest : rest \in Orderings(S \ {e})} : e \in S}

(* users.info on the workspace: the members with that id *)
MembersById(user_id) ==
    {slack.members[i] : i \in {j \in DOMAIN slack.members :
        slack.members[j].id = user_id}}

(* rbac.py:328-354  the loop over admin_users goes on with the entries     *)
(* left, then the groups are added and the list is returned                *)
AdminInfoNext(t) ==
    IF t.entries = {}
    THEN {[t EXCEPT !.pc = "done", !.admin_entry = None,
                    !.admin_info = @ \o groups] :
             groups \in {[i \in DOMAIN o |-> GroupInfo(o[i])] :
                            o \in Orderings(admin_groups)}}
    ELSE {[t EXCEPT !.pc = "admin_users_info", !.admin_entry = e,
                    !.entries = @ \ {e}, !.calls = @ + 1] : e \in t.entries}

(* rbac.py:324-328 *)
get_admin_users_info(p) ==
    /\ task[p].pc = "idle"
    /\ budget.calls > 0
    /\ budget' = [budget EXCEPT !.calls = @ - 1]
    /\ \E t \in AdminInfoNext([IdleTask EXCEPT !.api = "get_admin_users_info",
                                 !.entries = admin_users,
                                 !.policy0 = CurrentPolicy]) :
           task' = [task EXCEPT ![p] = t]
    /\ UNCHANGED <<policy, caches, now, slack, bot, history, applied, all_calls_raised>>

(* rbac.py:330-342  get_admin_users_info resumes after users_info: Slack   *)
(* knows only user ids; a user without a field raises KeyError             *)
admin_users_info(p, outcome) ==
    LET t == task[p] IN
    /\ t.pc = "admin_users_info"
    /\ outcome = "ok" => MembersById(t.admin_entry) # {}
    /\ Answered(outcome)
    /\ CASE outcome = "ok" ->
              \E user \in MembersById(t.admin_entry) :
                  IF user.name = None \/ user.real_name = None
                  THEN task' = [task EXCEPT ![p] = Raise(t)]
                  ELSE \E t2 \in AdminInfoNext([t EXCEPT !.admin_info =
                               Append(@, DirectInfo(t.admin_entry, user))]) :
                           task' = [task EXCEPT ![p] = t2]
         [] outcome \in {"not_ok", "SlackApiError"} ->
              \E t2 \in AdminInfoNext(t) : task' = [task EXCEPT ![p] = t2]
         [] OTHER -> task' = [task EXCEPT ![p] = Raise(t)]
    /\ UNCHANGED <<policy, caches, now, slack, bot, history, applied, budget>>

LoadOutcomes == {"loaded", "Exception"}

(* Loaded that keeps what the configuration has when loading raises *)
Loaded_Kept(c, outcome) == c

(* rbac.py:41-113  what load_configuration leaves: the configuration, or   *)
(* the secure default when anything raised                                 *)
Loaded(c, outcome) == IF outcome = "Exception" THEN SecureDefault ELSE c

(* rbac.py:21-39  RBACManager.__init__ has returned to its caller *)
InitApi ==
    /\ \E c \in ConfigFiles, outcome \in LoadOutcomes :
           /\ load_configuration(Loaded(c, outcome))
           /\ task = [p \in Tasks |->
                        IF p = "t1"
                        THEN [IdleTask EXCEPT !.pc = "done",
                                  !.api = "load_configuration",
                                  !.failed = (outcome = "Exception")]
                        ELSE IdleTask]
    /\ group_membership_cache = EmptyCache
    /\ username_to_id_cache = EmptyCache
    /\ now = 0
    /\ slack \in Workspaces
    /\ resolutions = EmptyCache
    /\ memberships = EmptyCache
    /\ applied = NoUpdate
    /\ all_calls_raised = TRUE
    /\ budget = [calls |-> MaxCalls, events |-> MaxEvents]
    /\ bot = NewBot

NextApi ==
    \/ \E operation \in Operations : get_operation_category("t1", operation)
    \/ \E user_id \in Users : get_user_permissions("t1", user_id)
    \/ get_admin_users_info("t1")
    \/ \E outcome \in Outcomes : admin_users_info("t1", outcome)
    \/ Return("t1")
    \/ \E config_updates \in ConfigUpdates : Quiet /\ update_configuration(config_updates)

SpecApi == InitApi /\ [][NextApi]_vars

(* C23 as claimed: an operation of admin_operations is "admin", one of     *)
(* user_operations is "user", one of self_service_operations is            *)
(* "self_service", one of none of them is "unknown".                       *)
C23_Claimed ==
    \A p \in Tasks :
        (task[p].api = "get_operation_category" /\ task[p].pc = "done") =>
            LET operation == task[p].operation IN
            /\ operation \in admin_operations => task[p].category = "admin"
            /\ operation \in user_operations => task[p].category = "user"
            /\ operation \in self_service_operations
                   => task[p].category = "self_service"
            /\ operation \notin (admin_operations \cup user_operations
                                    \cup self_service_operations)
                   => task[p].category = "unknown"

(* C23 as amended: get_operation_category gives the first of "admin",      *)
(* "user", "self_service" whose set has the operation, "unknown" when none *)
(* has it, and changes neither the policy nor the caches.                  *)
C23_FirstSetWins ==
    [][\A p \in Tasks, operation \in Operations :
           get_operation_category(p, operation) =>
               /\ task'[p].category =
                      IF operation \in admin_operations THEN "admin"
                      ELSE IF operation \in user_operations THEN "user"
                      ELSE IF operation \in self_service_operations
                           THEN "self_service"
                      ELSE "unknown"
               /\ UNCHANGED <<policy, caches, history>>]_vars

(* an operation of admin_operations and of user_operations is "admin" *)
C23_Witness ==
    \E p \in Tasks :
        /\ task[p].api = "get_operation_category" /\ task[p].pc = "done"
        /\ task[p].operation \in admin_operations \cap user_operations
        /\ task[p].category = "admin"

(* C24: get_user_permissions gives the three operation sets of the policy  *)
(* whoever the user is, calls Slack for nothing and changes neither the    *)
(* policy nor the caches.                                                  *)
C24_PureRead ==
    [][\A p \in Tasks, user_id \in Users :
           get_user_permissions(p, user_id) =>
               /\ task'[p].permissions =
                      [allowed_operations |-> user_operations,
                       admin_operations |-> admin_operations,
                       self_service_operations |-> self_service_operations]
               /\ task'[p].pc = "done" /\ task'[p].calls = 0
               /\ all_calls_raised' = all_calls_raised
               /\ UNCHANGED <<policy, caches, history>>]_vars

(* an admin user asked, and was given the user operations as allowed *)
C24_Witness ==
    \E p \in Tasks :
        /\ task[p].api = "get_user_permissions" /\ task[p].pc = "done"
        /\ task[p].user_id \in admin_users
        /\ task[p].permissions.allowed_operations = user_operations
        /\ admin_operations # {} /\ admin_operations \cap user_operations = {}

(* C25 as claimed: get_admin_users_info does not fail when users_info      *)
(* fails for an entry, and its list has every admin group.                 *)
C25_Claimed ==
    \A p \in Tasks :
        task[p].api = "get_admin_users_info" =>
            /\ task[p].pc # "raised"
            /\ task[p].pc = "done" =>
                   \A group \in admin_groups :
                       \E i \in DOMAIN task[p].admin_info :
                           task[p].admin_info[i] = GroupInfo(group)

(* C26: when loading the configuration raised, RBAC is enabled, there is   *)
(* no admin user and no admin group, and the user operations are           *)
(* list_clusters and help.                                                 *)
C26_FailClosed ==
    \A p \in Tasks :
        (task[p].api = "load_configuration" /\ task[p].failed) =>
            /\ rbac_enabled
            /\ admin_users = {} /\ admin_groups = {}
            /\ user_operations = {"list_clusters", "help"}

C26_Witness ==
    \E p \in Tasks :
        /\ task[p].api = "load_configuration" /\ task[p].failed
        /\ task[p].pc = "done"
        /\ rbac_enabled /\ admin_users = {} /\ admin_groups = {}
        /\ admin_operations = {"create_cluster", "create_user"}

----------------------------------------------------------------------------
(* A clear of the group cache under a query *)

(* C31 as claimed: an entry that is_user_in_group wrote after a clear of   *)
(* the cache that came while it awaited Slack is not used by a call made   *)
(* after the entry was written.                                            *)
C31_Claimed ==
    \A p \in Tasks : \A q \in task[p].queried :
        ~(/\ q.calls = 0 /\ q.prior.raced
          /\ GroupKey(task[p].user_id, q.group_name) \in task[p].raced0)

----------------------------------------------------------------------------
(* is_user_admin for a requester of admin_users, and failed resolutions *)

(* C32: a requester who is an element of admin_users is an admin for       *)
(* is_user_admin without a call of Slack and without a look at the caches, *)
(* whatever Slack does and whatever the caches hold.                       *)
C32_LiteralAdmin ==
    \A p \in Tasks :
        (/\ task[p].api = "" /\ task[p].is_admin # "unset"
         /\ task[p].user_id \in task[p].policy0.admin_users)
            => /\ task[p].is_admin = "yes"
               /\ task[p].calls = 0 /\ task[p].hits = {}
               /\ task[p].resolved = {} /\ task[p].queried = {}
               /\ task[p].pc = "done"

(* U1 is in admin_users and asks while the cache has the handle of alice *)
C32_Witness ==
    \E p \in Tasks :
        /\ task[p].user_id = U1 /\ U1 \in task[p].policy0.admin_users
        /\ task[p].is_admin = "yes" /\ task[p].calls = 0
        /\ task[p].result = Decision(TRUE, "Admin user")
        /\ UsernameKey(bare_alice) \in DOMAIN username_to_id_cache


(* C33: username_to_id_cache holds only user ids that Slack gave for a     *)
(* handle, never the None of a resolution that found nobody; a handle      *)
(* whose last resolution found nobody is asked of Slack again.             *)
C33_NoNegativeEntry ==
    /\ \A key \in DOMAIN username_to_id_cache :
           /\ username_to_id_cache[key].user_id # None
           /\ \E i \in DOMAIN slack.members :
                  /\ slack.members[i].id = username_to_id_cache[key].user_id
                  /\ ~slack.members[i].deleted
    /\ \A p \in Tasks : \A r \in task[p].resolved :
           /\ (r.admin_entry \notin CanonicalIds /\ r.user_id = None)
                  => r.calls >= 1
           /\ (r.admin_entry \notin CanonicalIds /\ r.prior.result = None)
                  => r.calls >= 1

(* "n" was asked of Slack, found nobody, and is asked of Slack again       *)
(* within the TTL                                                          *)
C33_Witness ==
    \E p \in Tasks : \E r \in task[p].resolved :
        /\ r.admin_entry = nobody
        /\ r.prior.calls >= 1 /\ r.prior.result = None
        /\ r.start - r.prior.end < cache_ttl
        /\ r.calls >= 1 /\ r.user_id = None
        /\ UsernameKey(nobody) \notin DOMAIN username_to_id_cache


(* C37 as claimed: when notify_admin_of_denied_access has ended, a         *)
(* chat_postMessage has been attempted for every entry of admin_users,     *)
(* whatever users_info and the other chat_postMessage calls did.           *)
C37_Claimed ==
    \A p \in Tasks :
        (Returned(task[p]) /\ task[p].notified >= 1 /\ SameConfig(task[p]))
            => task[p].attempted = task[p].policy0.admin_users

----------------------------------------------------------------------------
(* categorize_command, command_handler.py:32-155.  A command is the        *)
(* sequence of the words of command.lower(); a pattern "a.*b" is the       *)
(* sequence of its literals, which have to be found in this order.         *)

MaxWords == 3

Vocabulary == {"list", "show", "create", "cluster", "collection", "admin",
               "rbac", "report", "add", "ip", "whitelist", "reset", "password",
               "hello", "1.2.3.4"}

Commands == UNION {[1..n -> Vocabulary] : n \in 0..MaxWords}

(* re.search looks for the literal anywhere in the text: "list" is found   *)
(* in "whitelist"                                                          *)
Within(literal, word) ==
    \/ literal = word
    \/ literal = "list" /\ word = "whitelist"

(* re.search(r"a.*b", command_lower): the literals in this order *)
RECURSIVE Search(_, _)
Search(literals, command) ==
    IF literals = <<>> THEN TRUE
    ELSE IF command = <<>> THEN FALSE
    ELSE IF Within(Head(literals), Head(command))
         THEN Search(Tail(literals), Tail(command))
         ELSE Search(literals, Tail(command))

(* the value a rule gets from one of the _extract_ methods *)
Extracted == "extracted"

Rule(alternatives, category, action, tools, extracted) ==
    [alternatives |-> alternatives,
     sets |-> [key \in {"category", "action", "tools"} \cup extracted |->
                  CASE key = "category" -> category
                    [] key = "action" -> action
                    [] key = "tools" -> tools
                    [] OTHER -> Extracted]]

(* command_handler.py:38-129  the if statements in their order *)
Rules == <<
    Rule({<<"list", "cluster">>, <<"show", "cluster">>}, "atlas_management",
         "list_clusters", <<"atlas-list-clusters">>, {}),
    Rule({<<"create", "cluster">>}, "atlas_management", "create_cluster",
         <<"atlas-create-free-cluster">>, {"cluster_name"}),
    Rule({<<"add", "ip", "whitelist">>}, "security", "add_ip_whitelist",
         <<"atlas-inspect-access-list", "atlas-create-access-list">>,
         {"ip_address"}),
    Rule({<<"reset", "password">>}, "security", "reset_password",
         <<"atlas-list-db-users", "atlas-create-db-user">>, {}),
    Rule({<<"analyz", "performance">>}, "performance", "analyze_performance",
         <<"atlas-list-clusters", "atlas-inspect-cluster">>,
         {"cluster_name", "time_range"}),
    Rule({<<"slow", "quer">>}, "performance", "slow_queries",
         <<"connect", "aggregate">>, {"cluster_name"}),
    Rule({<<"show", "collection">>}, "database", "list_collections",
         <<"connect", "list-collections">>, {"database"}),
    Rule({<<"analyz", "schema">>}, "database", "schema_analysis",
         <<"connect", "collection-schema">>, {"collection"}),
    Rule({<<"rbac", "report">>, <<"show", "rbac">>, <<"rbac", "status">>},
         "rbac", "rbac_report", <<>>, {}),
    Rule({<<"show", "admin">>, <<"list", "admin">>}, "rbac", "list_admins",
         <<>>, {}),
    Rule({<<"my", "permission">>, <<"what", "can", "do">>}, "rbac",
         "check_permissions", <<>>, {}),
    Rule({<<"list", "database">>}, "database", "list_databases",
         <<"connect", "list-databases">>, {}),
    Rule({<<"list", "collection">>}, "database", "list_collections",
         <<"connect", "list-collections">>, {"database"}),
    Rule({<<"missing", "index">>}, "optimization", "missing_indexes",
         <<"connect", "list-collections", "collection-indexes",
           "collection-schema">>, {"database"}),
    Rule({<<"redundant", "index">>, <<"duplicate", "index">>}, "optimization",
         "redundant_indexes",
         <<"connect", "list-collections", "collection-indexes">>, {"database"}),
    Rule({<<"schema", "analysis">>}, "database", "schema_analysis",
         <<"connect", "collection-schema">>, {"collection"}) >>

RuleMatches(rule, command) ==
    \E literals \in rule.alternatives : Search(literals, command)

(* an if statement that leaves what an earlier one has set *)
ApplyRule_KeepsFirst(result, rule, command) ==
    IF RuleMatches(rule, command) THEN result @@ rule.sets ELSE result

(* one if statement: its assignments replace what the keys had *)
ApplyRule(result, rule, command) ==
    IF RuleMatches(rule, command) THEN rule.sets @@ result ELSE result

RECURSIVE ApplyRules(_, _, _)
ApplyRules(result, rules, command) ==
    IF rules = <<>> THEN result
    ELSE ApplyRules(ApplyRule(result, Head(rules), command), Tail(rules), command)

(* command_handler.py:131-147  the address and the cluster name are looked *)
(* for in any command: an address is found if the command has one, a       *)
(* cluster name is its last word at the latest; then the default           *)
Fallbacks(result, command) ==
    LET r1 == IF "ip_address" \notin DOMAIN result
                 /\ \E i \in DOMAIN command : command[i] = "1.2.3.4"
              THEN result @@ [ip_address |-> Extracted] ELSE result
        r2 == IF "cluster_name" \notin DOMAIN r1 /\ command # <<>>
              THEN r1 @@ [cluster_name |-> Extracted] ELSE r1
    IN
    IF "category" \notin DOMAIN r2
    THEN r2 @@ [category |-> "general", action |-> "help", tools |-> <<>>]
    ELSE r2

(* command_handler.py:32-149 *)
CategorizeCommand(command) == Fallbacks(ApplyRules(NoUpdate, Rules, command), command)

(* command_handler.py:32  categorize_command(command) is called *)
categorize_command(p, command) ==
    /\ task[p].pc = "idle"
    /\ budget.calls > 0
    /\ budget' = [budget EXCEPT !.calls = @ - 1]
    /\ task' = [task EXCEPT ![p] =
                  [IdleTask EXCEPT !.pc = "done", !.api = "categorize_command",
                                   !.command = command,
                                   !.command_info = CategorizeCommand(command)]]
    /\ UNCHANGED <<policy, caches, now, slack, bot, history, applied,
                   all_calls_raised>>

(* a command handler, as test_bot.py:24-25 makes one *)
InitCmd ==
    /\ load_configuration(SecureDefault)
    /\ group_membership_cache = EmptyCache
    /\ username_to_id_cache = EmptyCache
    /\ now = 0
    /\ slack = WorkspaceA
    /\ task = [p \in Tasks |-> IdleTask]
    /\ resolutions = EmptyCache
    /\ memberships = EmptyCache
    /\ applied = NoUpdate
    /\ all_calls_raised = TRUE
    /\ budget = [calls |-> MaxCalls, events |-> MaxEvents]
    /\ bot = NewBot

NextCmd ==
    \/ \E command \in Commands : categorize_command("t1", command)
    \/ Return("t1")

SpecCmd == InitCmd /\ [][NextCmd]_vars

(* the rules, by their place in the order, that match the command *)
Matching(command) == {i \in DOMAIN Rules : RuleMatches(Rules[i], command)}

Last(S) == CHOOSE i \in S : \A j \in S : j <= i

(* C39: categorize_command gives the category, the action and the tools of *)
(* the last rule, in the order of the rules, that matches the command;     *)
(* when no rule matches it gives "general", "help" and no tools; its       *)
(* result has the keys category, action and tools.                         *)
C39_LastRuleWins ==
    \A p \in Tasks :
        (task[p].api = "categorize_command" /\ task[p].pc = "done") =>
            LET result == task[p].command_info
                matching == Matching(task[p].command)
            IN
            /\ {"category", "action", "tools"} \subseteq DOMAIN result
            /\ IF matching = {}
               THEN /\ result.category = "general" /\ result.action = "help"
                    /\ result.tools = <<>>
               ELSE /\ result.category = Rules[Last(matching)].sets.category
                    /\ result.action = Rules[Last(matching)].sets.action
                    /\ result.tools = Rules[Last(matching)].sets.tools

(* "show cluster admin" matches the rule of list_clusters and, after it,   *)
(* the rule of list_admins                                                 *)
C39_Witness ==
    \E p \in Tasks :
        /\ task[p].api = "categorize_command" /\ task[p].pc = "done"
        /\ task[p].command = <<"show", "cluster", "admin">>
        /\ Matching(task[p].command) = {1, 10}
        /\ task[p].command_info.action = "list_admins"
        /\ task[p].command_info.category = "rbac"
        /\ task[p].command_info.tools = <<>>

----------------------------------------------------------------------------
(* The bot, mongo_bot.py:130-411.  A message is a task that goes through   *)
(* process_message; where it awaits a method of the manager, the task runs *)
(* the manager's steps above and the bot goes on when they are done.       *)

(* what the bot can be asked *)
BotCommands == { <<>>, <<"hello">>, <<"list", "cluster">>, <<"create", "cluster">>,
                 <<"reset", "password">>, <<"rbac", "report">>,
                 <<"list", "admin">>, <<"my", "permission">> }

BotOutcomes == {"ok", "Exception"}

(* process_with_claude_and_mcp calls check_user_permission that passes the *)
(* requester as the target                                                 *)
PipelineTarget_Requester(user_id) == user_id

(* mongo_bot.py:186  check_user_permission(user_id, operation): the        *)
(* target_user is left to its default                                      *)
PipelineTarget(user_id) == None

(* the bot has its answer and says it (mongo_bot.py:153, 167) *)
Answer(t, reply) == [t EXCEPT !.pc = "say", !.reply = reply]

(* mongo_bot.py:169-171  except Exception in process_message *)
Sorry(t) == [t EXCEPT !.pc = "say_error", !.reply = "Sorry, I encountered an error"]

(* mongo_bot.py:246, 347, 354, 384  the bot awaits is_user_admin(user_id) *)
StartIsUserAdmin(t, stage) ==
    IsUserAdminStart([t EXCEPT !.api = "is_user_admin", !.stage = stage,
                               !.is_admin = "unset"])

(* mongo_bot.py:173-186  process_with_claude_and_mcp up to its first await *)
Process(t, b) ==
    IF b.command_handler = 0
    THEN \* self.command_handler is None: AttributeError, caught at line 239
         Answer([t EXCEPT !.stage = "process"], "Error processing request")
    ELSE LET command_info == CategorizeCommand(t.command)
             t1 == [t EXCEPT !.command_info = command_info,
                             !.session = b.command_handler]
         IN
         IF command_info.action = "help"
         THEN StartIsUserAdmin(t1, "help")
         ELSE CheckStart([t1 EXCEPT !.stage = "check", !.api = "",
                                    !.operation = command_info.action,
                                    !.target_user = PipelineTarget(t.user_id),
                                    !.policy0 = CurrentPolicy])

(* mongo_bot.py:138-161  process_message after auth_test *)
AfterAuth(t) ==
    IF t.command = <<>> THEN StartIsUserAdmin(t, "empty_help")
    ELSE [t EXCEPT !.pc = "say_analyzing"]

(* mongo_bot.py:130-136  a message arrives *)
process_message(p, user_id, command) ==
    LET t == [IdleTask EXCEPT !.user_id = user_id, !.command = command,
                              !.stage = "process_message"] IN
    /\ task[p].pc = "idle"
    /\ budget.calls > 0
    /\ budget' = [budget EXCEPT !.calls = @ - 1]
    /\ IF ~bot.bot_user_id
       THEN /\ Run(p, Ctx([t EXCEPT !.pc = "auth_test"]))
            /\ bot' = bot
       ELSE /\ Run(p, Ctx(AfterAuth(t)))
            /\ bot' = [bot EXCEPT !.rbac_manager = TRUE]
    /\ UNCHANGED <<policy, now, slack, applied, all_calls_raised>>

(* mongo_bot.py:135-141  after client.auth_test() *)
auth_test(p, outcome) ==
    LET t == task[p] IN
    /\ t.pc = "auth_test"
    /\ IF outcome = "ok"
       THEN /\ Run(p, Ctx(AfterAuth(t)))
            /\ bot' = [bot EXCEPT !.bot_user_id = TRUE, !.rbac_manager = TRUE]
       ELSE /\ Run(p, Ctx(Sorry(t)))
            /\ bot' = bot
    /\ UNCHANGED <<policy, now, slack, applied, all_calls_raised, budget>>

(* mongo_bot.py:157-164  after say("Analyzing your request...") *)
say_analyzing(p, outcome) ==
    LET t == task[p] IN
    /\ t.pc = "say_analyzing"
    /\ IF outcome # "ok" THEN Run(p, Ctx(Sorry(t)))
       ELSE IF bot.mcp_session = 0
            THEN \* setup_mcp_connection awaits stdio_client
                 Run(p, Ctx([t EXCEPT !.pc = "stdio_client", !.setup = TRUE]))
            ELSE Run(p, Ctx(Process(t, bot)))
    /\ UNCHANGED <<policy, now, slack, applied, all_calls_raised, budget, bot>>

(* mongo_bot.py:81-85, 93-95  setup_mcp_connection after stdio_client: the *)
(* new session and a handler for it replace what the bot had               *)
stdio_client(p, outcome) ==
    LET t == task[p]
        session == bot.opened + 1
    IN
    /\ t.pc = "stdio_client"
    /\ IF outcome = "ok"
       THEN /\ bot' = [bot EXCEPT !.opened = session, !.mcp_session = session,
                                  !.command_handler = session]
            /\ Run(p, Ctx([t EXCEPT !.pc = "refresh_tools"]))
       ELSE \* setup_mcp_connection returns False, process_message goes on
            /\ bot' = bot
            /\ Run(p, Ctx(Process(t, bot)))
    /\ UNCHANGED <<policy, now, slack, applied, all_calls_raised, budget>>

(* mongo_bot.py:85-88, command_handler.py:23-30  refresh_tools catches     *)
(* what list_tools raises                                                  *)
refresh_tools(p, outcome) ==
    LET t == task[p] IN
    /\ t.pc = "refresh_tools"
    /\ Run(p, Ctx([t EXCEPT !.pc = "list_tools"]))
    /\ UNCHANGED <<policy, now, slack, applied, all_calls_raised, budget, bot>>

(* mongo_bot.py:88-95, 164  setup_mcp_connection ends, with True or False, *)
(* and process_message goes on                                             *)
list_tools(p, outcome) ==
    LET t == task[p] IN
    /\ t.pc = "list_tools"
    /\ Run(p, Ctx(Process(t, bot)))
    /\ UNCHANGED <<policy, now, slack, applied, all_calls_raised, budget, bot>>

(* mongo_bot.py:342-385  handle_rbac_command up to is_user_admin *)
HandleRbacCommand(t) ==
    IF t.operation \in {"rbac_report", "list_admins"}
    THEN StartIsUserAdmin(t, "rbac")
    ELSE IF t.operation = "check_permissions"
    THEN StartIsUserAdmin([t EXCEPT !.permissions = PermissionsOf(t.user_id)],
                          "check_permissions")
    ELSE Answer(t, "Unknown RBAC command")

(* process_with_claude_and_mcp that goes on whatever the check returned *)
AfterCheck_NoGate(t) ==
    IF t.pc = "raised" THEN Answer(t, "Error processing request")
    ELSE IF t.command_info.category = "rbac" THEN HandleRbacCommand(t)
    ELSE [t EXCEPT !.pc = "execute_command", !.executed = TRUE]

(* mongo_bot.py:186-198, 239-241  check_user_permission has returned *)
AfterCheck(t) ==
    IF t.pc = "raised" THEN Answer(t, "Error processing request")
    ELSE IF ~t.result.allowed THEN [t EXCEPT !.pc = "handle_permission_denied"]
    ELSE IF t.command_info.category = "rbac" THEN HandleRbacCommand(t)
    ELSE [t EXCEPT !.pc = "execute_command", !.executed = TRUE]

permission_check_returned(p) ==
    LET t == task[p] IN
    /\ t.stage = "check" /\ t.pc \in {"done", "raised"}
    /\ Run(p, Ctx(AfterCheck(t)))
    /\ UNCHANGED <<policy, now, slack, applied, all_calls_raised, budget, bot>>

(* mongo_bot.py:305-340  handle_permission_denied: users_info and          *)
(* get_admin_users_info for the message; when one raises, the short        *)
(* message                                                                 *)
handle_permission_denied(p, outcome) ==
    LET t == task[p] IN
    /\ t.pc = "handle_permission_denied"
    /\ Run(p, Ctx(Answer(t, IF outcome = "ok" THEN "Access Denied"
                            ELSE "Access denied")))
    /\ UNCHANGED <<policy, now, slack, applied, all_calls_raised, budget, bot>>

(* handle_rbac_command without the test of is_user_admin *)
AfterAdmin_NoGate(t, b) ==
    CASE t.stage = "rbac" ->
           IF t.pc = "raised" THEN {Answer(t, "Error processing RBAC command")}
           ELSE IF t.operation = "rbac_report" THEN {Answer(t, "rbac_report")}
           ELSE AdminInfoNext([t EXCEPT !.stage = "list_admins",
                                        !.admin_info = <<>>,
                                        !.entries = admin_users])
      [] t.stage = "check_permissions" ->
           IF t.pc = "raised" THEN {Answer(t, "Error processing RBAC command")}
           ELSE {Answer(t, "Your Permissions")}
      [] OTHER ->
           IF t.pc = "raised"
           THEN IF b.command_handler # 0 THEN {Answer(t, "help_text")}
                ELSE {Sorry(t)}
           ELSE {Answer(t, IF t.is_admin = "yes" THEN "Admin Access"
                           ELSE "User Access")}

(* mongo_bot.py:246-303 and 347-409  is_user_admin has returned to         *)
(* get_personalized_help or to handle_rbac_command                         *)
AfterAdmin(t, b) ==
    CASE t.stage = "rbac" ->
           IF t.pc = "raised" THEN {Answer(t, "Error processing RBAC command")}
           ELSE IF t.is_admin # "yes" THEN {Answer(t, "Admin privileges required")}
           ELSE IF t.operation = "rbac_report" THEN {Answer(t, "rbac_report")}
           ELSE AdminInfoNext([t EXCEPT !.stage = "list_admins",
                                        !.admin_info = <<>>,
                                        !.entries = admin_users])
      [] t.stage = "check_permissions" ->
           IF t.pc = "raised" THEN {Answer(t, "Error processing RBAC command")}
           ELSE {Answer(t, "Your Permissions")}
      [] OTHER ->
           IF t.pc = "raised"
           THEN \* mongo_bot.py:301-303  self.command_handler._get_help_text()
                IF b.command_handler # 0 THEN {Answer(t, "help_text")}
                ELSE {Sorry(t)}
           ELSE {Answer(t, IF t.is_admin = "yes" THEN "Admin Access"
                           ELSE "User Access")}

is_user_admin_returned(p) ==
    LET t == task[p] IN
    /\ t.stage \in {"rbac", "check_permissions", "help", "empty_help"}
    /\ t.pc \in {"done", "raised"}
    /\ \E t2 \in AfterAdmin(t, bot) : Run(p, Ctx(t2))
    /\ UNCHANGED <<policy, now, slack, applied, all_calls_raised, budget, bot>>

(* mongo_bot.py:357-379  get_admin_users_info has returned to              *)
(* handle_rbac_command                                                     *)
get_admin_users_info_returned(p) ==
    LET t == task[p] IN
    /\ t.stage = "list_admins" /\ t.pc \in {"done", "raised"}
    /\ Run(p, Ctx(IF t.pc = "raised"
                  THEN Answer(t, "Error processing RBAC command")
                  ELSE Answer(t, "Administrator List")))
    /\ UNCHANGED <<policy, now, slack, applied, all_calls_raised, budget, bot>>

(* mongo_bot.py:198-225, command_handler.py:258-285  execute_command has   *)
(* returned its results, or the error it caught                            *)
execute_command(p, outcome) ==
    LET t == task[p] IN
    /\ t.pc = "execute_command"
    /\ Run(p, Ctx([t EXCEPT !.pc = "messages_create"]))
    /\ UNCHANGED <<policy, now, slack, applied, all_calls_raised, budget, bot>>

(* mongo_bot.py:225-241  after claude_client.messages.create *)
messages_create(p, outcome) ==
    LET t == task[p] IN
    /\ t.pc = "messages_create"
    /\ Run(p, Ctx(Answer(t, IF outcome = "ok" THEN "formatted"
                            ELSE "Error processing request")))
    /\ UNCHANGED <<policy, now, slack, applied, all_calls_raised, budget, bot>>

(* mongo_bot.py:153, 167-171  after say(response) *)
say(p, outcome) ==
    LET t == task[p] IN
    /\ t.pc = "say"
    /\ Run(p, Ctx(IF outcome = "ok" THEN [t EXCEPT !.pc = "replied"]
                  ELSE Sorry(t)))
    /\ UNCHANGED <<policy, now, slack, applied, all_calls_raised, budget, bot>>

(* mongo_bot.py:171  after say("Sorry, I encountered an error") *)
say_error(p, outcome) ==
    LET t == task[p] IN
    /\ t.pc = "say_error"
    /\ Run(p, Ctx([t EXCEPT !.pc = IF outcome = "ok" THEN "replied" ELSE "failed"]))
    /\ UNCHANGED <<policy, now, slack, applied, all_calls_raised, budget, bot>>

(* process_message has returned to the Slack app *)
Replied(p) ==
    /\ task[p].pc \in {"replied", "failed"}
    /\ task' = [task EXCEPT ![p] = IdleTask]
    /\ UNCHANGED <<policy, caches, now, slack, bot, history, applied,
                   all_calls_raised, budget>>

(* the configurations of the bot: rbac_report is a user operation in the   *)
(* first, RBAC is disabled in the second, the third is the secure default  *)
(* with a handle as admin                                                  *)
BotConfigFiles == {
    Config(TRUE, {U1}, {dba}, {"create_cluster"},
           {"list_clusters", "rbac_report", "list_admins"}, {"reset_password"},
           FALSE, TRUE),
    Config(FALSE, {U1}, {}, {"create_cluster"}, {"list_clusters"},
           {"reset_password"}, FALSE, TRUE),
    Config(TRUE, {at_alice}, {}, SecureDefault.ADMIN_OPERATIONS,
           SecureDefault.USER_OPERATIONS, SecureDefault.SELF_SERVICE_OPERATIONS,
           TRUE, TRUE) }

(* mongo_bot.py:413-421  start(): setup_mcp_connection has set up the      *)
(* session and the handler, or has failed and left the bot without them    *)
StartedBots ==
    { [NewBot EXCEPT !.rbac_manager = FALSE],
      [NewBot EXCEPT !.rbac_manager = FALSE, !.mcp_session = 1,
                     !.command_handler = 1, !.opened = 1] }

InitBot ==
    /\ \E c \in BotConfigFiles : load_configuration(c)
    /\ group_membership_cache = EmptyCache
    /\ username_to_id_cache = EmptyCache
    /\ now = 0
    /\ slack \in Workspaces
    /\ task = [p \in Tasks |-> IdleTask]
    /\ resolutions = EmptyCache
    /\ memberships = EmptyCache
    /\ applied = NoUpdate
    /\ all_calls_raised = TRUE
    /\ budget = [calls |-> MaxCalls, events |-> MaxEvents]
    /\ bot \in StartedBots

(* the bot with one message at a time *)
NextBot ==
    \/ \E user_id \in Users, command \in BotCommands :
           process_message("t1", user_id, command)
    \/ \E outcome \in BotOutcomes : auth_test("t1", outcome)
    \/ \E outcome \in BotOutcomes : say_analyzing("t1", outcome)
    \/ \E outcome \in BotOutcomes : stdio_client("t1", outcome)
    \/ \E outcome \in BotOutcomes : refresh_tools("t1", outcome)
    \/ \E outcome \in BotOutcomes : list_tools("t1", outcome)
    \/ permission_check_returned("t1")
    \/ \E outcome \in BotOutcomes : handle_permission_denied("t1", outcome)
    \/ is_user_admin_returned("t1")
    \/ get_admin_users_info_returned("t1")
    \/ \E outcome \in BotOutcomes : execute_command("t1", outcome)
    \/ \E outcome \in BotOutcomes : messages_create("t1", outcome)
    \/ \E outcome \in BotOutcomes : say("t1", outcome)
    \/ \E outcome \in BotOutcomes : say_error("t1", outcome)
    \/ Replied("t1")
    \/ \E outcome \in Outcomes : users_list("t1", outcome)
    \/ \E outcome \in Outcomes : usergroups_list("t1", outcome)
    \/ \E outcome \in Outcomes : usergroups_users_list("t1", outcome)
    \/ \E outcome \in Outcomes : users_info("t1", outcome)
    \/ \E outcome \in Outcomes : chat_postMessage("t1", outcome)
    \/ \E outcome \in Outcomes : admin_users_info("t1", outcome)

SpecBot == InitBot /\ [][NextBot]_vars


(* C34: execute_command is called for a message only when                  *)
(* check_user_permission, asked about the sender and the action of the     *)
(* message, has returned allowed; after a denial it is never called.       *)
C34_ExecuteAfterAllowed ==
    \A p \in Tasks :
        /\ (task[p].executed \/ task[p].pc \in {"execute_command", "messages_create"})
               => /\ task[p].stage = "check" /\ task[p].result.allowed
                  /\ task[p].operation = task[p].command_info.action
                  /\ task[p].command_info = CategorizeCommand(task[p].command)
        /\ task[p].pc = "handle_permission_denied" => ~task[p].executed

(* the command of a user who is no admin is executed as a user operation *)
C34_Witness ==
    \E p \in Tasks :
        /\ task[p].executed /\ task[p].pc = "execute_command"
        /\ task[p].is_admin = "no"
        /\ task[p].result = Decision(TRUE, "User operation")
        /\ task[p].operation = "list_clusters"

----------------------------------------------------------------------------
(* Two messages at a time: the Slack app runs process_message for each     *)
(* event as a coroutine of its own (mongo_bot.py:100-128)                  *)

(* both users are admins by their ids: the manager calls Slack for nothing *)
SetupConfigFiles ==
    { Config(TRUE, Users, {}, {"create_cluster"}, {"list_clusters"}, {},
             FALSE, TRUE) }

SetupCommands == { <<"hello">>, <<"list", "cluster">> }

InitSetup ==
    /\ \E c \in SetupConfigFiles : load_configuration(c)
    /\ group_membership_cache = EmptyCache
    /\ username_to_id_cache = EmptyCache
    /\ now = 0
    /\ slack = WorkspaceA
    /\ task = [p \in Tasks |-> IdleTask]
    /\ resolutions = EmptyCache
    /\ memberships = EmptyCache
    /\ applied = NoUpdate
    /\ all_calls_raised = TRUE
    /\ budget = [calls |-> MaxCalls, events |-> MaxEvents]
    /\ bot \in StartedBots

NextSetup ==
    \/ \E p \in Tasks, user_id \in Users, command \in SetupCommands :
           process_message(p, user_id, command)
    \/ \E p \in Tasks, outcome \in BotOutcomes : auth_test(p, outcome)
    \/ \E p \in Tasks, outcome \in BotOutcomes : say_analyzing(p, outcome)
    \/ \E p \in Tasks, outcome \in BotOutcomes : stdio_client(p, outcome)
    \/ \E p \in Tasks, outcome \in BotOutcomes : refresh_tools(p, outcome)
    \/ \E p \in Tasks, outcome \in BotOutcomes : list_tools(p, outcome)
    \/ \E p \in Tasks : permission_check_returned(p)
    \/ \E p \in Tasks : is_user_admin_returned(p)
    \/ \E p \in Tasks, outcome \in BotOutcomes : execute_command(p, outcome)
    \/ \E p \in Tasks, outcome \in BotOutcomes : messages_create(p, outcome)
    \/ \E p \in Tasks, outcome \in BotOutcomes : say(p, outcome)
    \/ \E p \in Tasks, outcome \in BotOutcomes : say_error(p, outcome)
    \/ \E p \in Tasks : Replied(p)

SpecSetup == InitSetup /\ [][NextSetup]_vars

(* setup_mcp_connection is under way in the task (mongo_bot.py:81-88) *)
InSetup(t) == t.pc \in {"stdio_client", "refresh_tools", "list_tools"}

(* C38 as claimed: no two setup_mcp_connection are under way at a time,    *)
(* none is started while the bot has a session, so that at most one        *)
(* session is ever opened, and the command handler is that of the session  *)
(* the bot has.                                                            *)
C38_Claimed ==
    /\ \A p \in Tasks, q \in Tasks :
           (InSetup(task[p]) /\ InSetup(task[q])) => p = q
    /\ \A p \in Tasks :
           (task[p].pc = "stdio_client") => bot.mcp_session = 0
    /\ bot.opened <= 1
    /\ bot.command_handler = bot.mcp_session

====
